---- MODULE Spec2Model ----
(***************************************************************************)
(* A model of the turn executor (executeStep), the directive parser        *)
(* (parseAIResponse / robustJsonParse) and the notepad patch engine        *)
(* (applyNotepadModifications / findHeaderLineIndex).                      *)
(*                                                                         *)
(* Text is a sequence of characters.  In the parser and in the executor a  *)
(* character is a lexeme of the reply: the code fence, the tag "json",     *)
(* a JSON punctuation mark, a JSON string literal, a JSON literal, a       *)
(* comment mark, a blank, a line break or a word of prose.  In the patch   *)
(* engine a character is a single character of the document.              *)
(***************************************************************************)
EXTENDS Integers, Sequences, FiniteSets, TLC

\* ------------------------------------------------------------------------
\* Generic string helpers (JavaScript String methods on sequences)
\* ------------------------------------------------------------------------

Undefined == [t |-> "undefined"]

\* Op(x) with x evaluated once, before Op uses it
With(x, Op(_)) == CHOOSE r \in {Op(v) : v \in {x}} : TRUE

Max(a, b) == IF a >= b THEN a ELSE b

Min(a, b) == IF a <= b THEN a ELSE b

\* s.substring(i-1, j) with 1-based inclusive bounds
Slice(s, i, j) == IF j < i THEN <<>> ELSE SubSeq(s, i, j)

\* a whitespace character of a regular expression
IsSpace(c) == c \in {" ", "\n"}

\* s.startsWith(p) at 1-based position i
MatchesAt(s, p, i) ==
  /\ i >= 1
  /\ i + Len(p) - 1 <= Len(s)
  /\ \A k \in 1..Len(p) : s[i + k - 1] = p[k]

\* s.indexOf(p) as a 1-based position, 0 when absent (an empty p is found at 1)
IndexOf(s, p) ==
  With({i \in 1..(Len(s) + 1) : MatchesAt(s, p, i)}, LAMBDA hits :
    IF hits = {} THEN 0 ELSE CHOOSE i \in hits : \A j \in hits : i <= j)

\* s.includes(p)
Includes(s, p) == IndexOf(s, p) # 0

\* s.endsWith(p)
EndsWith(s, p) == Len(p) <= Len(s) /\ MatchesAt(s, p, Len(s) - Len(p) + 1)

\* s.startsWith(p)
StartsWith(s, p) == MatchesAt(s, p, 1)

\* the first position >= from that holds c, 0 when there is none
FindChar(s, c, from) ==
  With({i \in Max(from, 1)..Len(s) : s[i] = c}, LAMBDA hits :
    IF hits = {} THEN 0 ELSE CHOOSE i \in hits : \A j \in hits : i <= j)

\* s.lastIndexOf(c, from) for a one-character c: the last position <= from, 0 when absent
LastIndexOfChar(s, c, from) ==
  With({i \in 1..Min(from, Len(s)) : s[i] = c}, LAMBDA hits :
    IF hits = {} THEN 0 ELSE CHOOSE i \in hits : \A j \in hits : j <= i)

\* s.trim()
TrimStart(s) ==
  With({i \in 1..Len(s) : ~IsSpace(s[i])}, LAMBDA ns :
    IF ns = {} THEN <<>>
    ELSE SubSeq(s, CHOOSE i \in ns : \A j \in ns : i <= j, Len(s)))

TrimEnd(s) ==
  With({i \in 1..Len(s) : ~IsSpace(s[i])}, LAMBDA ns :
    IF ns = {} THEN <<>>
    ELSE SubSeq(s, 1, CHOOSE i \in ns : \A j \in ns : j <= i))

Trim(s) == With(TrimStart(s), LAMBDA t : TrimEnd(t))

\* s.replace(p, r) with a string pattern: the first occurrence only
ReplaceFirst(s, p, r) ==
  With(IndexOf(s, p), LAMBDA i :
    IF i = 0 THEN s
    ELSE Slice(s, 1, i - 1) \o r \o Slice(s, i + Len(p), Len(s)))

\* ------------------------------------------------------------------------
\* The directive parser: robustJsonParse and parseAIResponse
\* ------------------------------------------------------------------------

\* the code fence, three backquote characters
FENCE == "[fence]"

\* the optional tag of a fence, matched without regard to case
JsonTags == {"json", "JSON"}

KeyMods == "\"notepad_modifications\""

KeyDone == "\"discussion_complete\""

\* const knownKeys
knownKeys == <<KeyMods, KeyDone>>

\* JSON string literals of the modelled replies
StringTokens == {KeyMods, KeyDone, "\"action\"", "\"append\"", "\"content\"", "\"X\"", "\"a\"",
                 "\",}\"", "\"}\""}

\* JSON literals: strings, numbers, true, false, null
LiteralTokens == StringTokens \cup {"true", "false", "null", "1"}

JsNull == [t |-> "lit", x |-> <<"null">>]

JsLit(c) == [t |-> "lit", x |-> <<c>>]

ParseFail == [ok |-> FALSE, val |-> JsNull, next |-> 0]

NotSpace(c) == ~IsSpace(c)

RECURSIVE JsonValue(_, _)
RECURSIVE JsonElements(_, _, _)
RECURSIVE JsonMembers(_, _, _)

\* one JSON value of the blank-free lexeme sequence s starting at position i
JsonValue(s, i) ==
  IF i > Len(s) THEN ParseFail
  ELSE IF s[i] \in LiteralTokens THEN [ok |-> TRUE, val |-> JsLit(s[i]), next |-> i + 1]
  ELSE IF s[i] = "[" THEN
         IF i + 1 <= Len(s) /\ s[i + 1] = "]"
           THEN [ok |-> TRUE, val |-> [t |-> "arr", x |-> <<>>], next |-> i + 2]
           ELSE JsonElements(s, i + 1, <<>>)
  ELSE IF s[i] = "{" THEN
         IF i + 1 <= Len(s) /\ s[i + 1] = "}"
           THEN [ok |-> TRUE, val |-> [t |-> "obj", x |-> <<>>], next |-> i + 2]
           ELSE JsonMembers(s, i + 1, <<>>)
  ELSE ParseFail

JsonElements(s, i, acc) ==
  With(JsonValue(s, i), LAMBDA v :
    IF ~v.ok \/ v.next > Len(s) THEN ParseFail
    ELSE IF s[v.next] = ","
      THEN With(Append(acc, v.val), LAMBDA items : JsonElements(s, v.next + 1, items))
    ELSE IF s[v.next] = "]"
      THEN [ok |-> TRUE, val |-> [t |-> "arr", x |-> Append(acc, v.val)], next |-> v.next + 1]
    ELSE ParseFail)

JsonMembers(s, i, acc) ==
  IF i + 1 > Len(s) \/ s[i] \notin StringTokens \/ s[i + 1] # ":" THEN ParseFail
  ELSE With(JsonValue(s, i + 2), LAMBDA v :
         IF ~v.ok \/ v.next > Len(s) THEN ParseFail
         ELSE With(Append(acc, [k |-> s[i], v |-> v.val]), LAMBDA members :
                IF s[v.next] = "," THEN JsonMembers(s, v.next + 1, members)
                ELSE IF s[v.next] = "}"
                  THEN [ok |-> TRUE, val |-> [t |-> "obj", x |-> members], next |-> v.next + 1]
                ELSE ParseFail))

\* JSON.parse: blanks and line breaks between lexemes are insignificant; ok = FALSE
\* stands for the SyntaxError it throws
JsonParse(s) ==
  With(SelectSeq(s, NotSpace), LAMBDA toks :
    With(JsonValue(toks, 1), LAMBDA r :
      IF r.ok /\ r.next = Len(toks) + 1 THEN [ok |-> TRUE, val |-> r.val]
      ELSE [ok |-> FALSE, val |-> JsNull]))

\* the first position >= i that holds no blank (Len(s) + 1 when there is none)
RECURSIVE SkipSpaces(_, _)
SkipSpaces(s, i) ==
  IF i <= Len(s) /\ IsSpace(s[i]) THEN SkipSpaces(s, i + 1) ELSE i

\* the trailing-comma repair inside one lexeme: the string literal that holds a comma
\* and a closing brace loses its comma, as the expression is matched against the
\* characters of the text, string literals included
CommaStripped(lexeme) == IF lexeme = "\",}\"" THEN "\"}\"" ELSE lexeme

\* the trailing-comma repair: every comma followed by optional blanks and a closing
\* brace or bracket is dropped
RECURSIVE StripTrailingCommas(_)
StripTrailingCommas(s) ==
  IF s = <<>> THEN <<>>
  ELSE With(SkipSpaces(s, 2), LAMBDA n :
         With(Tail(s), LAMBDA rest :
           IF s[1] = "," /\ n <= Len(s) /\ s[n] \in {"}", "]"}
             THEN StripTrailingCommas(rest)
             ELSE <<CommaStripped(s[1])>> \o StripTrailingCommas(rest)))

\* the line-comment repair: from a line-comment mark to the end of its line
RECURSIVE StripLineComments(_, _)
StripLineComments(s, inComment) ==
  IF s = <<>> THEN <<>>
  ELSE With(Tail(s), LAMBDA rest :
         IF s[1] = "\n" THEN <<s[1]>> \o StripLineComments(rest, FALSE)
         ELSE IF inComment \/ s[1] = "//" THEN StripLineComments(rest, TRUE)
         ELSE <<s[1]>> \o StripLineComments(rest, FALSE))

\* the block-comment repair: from a block-comment mark to the first closing mark
RECURSIVE StripBlockComments(_)
StripBlockComments(s) ==
  IF s = <<>> THEN <<>>
  ELSE With(IF s[1] = "/*" THEN FindChar(s, "*/", 2) ELSE 0, LAMBDA close :
         IF close # 0
           THEN With(Slice(s, close + 1, Len(s)), LAMBDA rest : StripBlockComments(rest))
           ELSE With(Tail(s), LAMBDA rest : <<s[1]>> \o StripBlockComments(rest)))

\* const robustJsonParse: null (JsNull) when no repair parses
robustJsonParse(jsonStr) ==
  IF jsonStr = <<>> THEN JsNull
  ELSE With(JsonParse(jsonStr), LAMBDA asIs :
         IF asIs.ok THEN asIs.val
         ELSE With(StripTrailingCommas(jsonStr), LAMBDA cleaned :
                With(JsonParse(cleaned), LAMBDA second :
                  IF second.ok THEN second.val
                  ELSE With(StripLineComments(cleaned, FALSE), LAMBDA noLine :
                         With(StripBlockComments(noLine), LAMBDA noComments :
                           With(JsonParse(noComments), LAMBDA third :
                             IF third.ok THEN third.val ELSE JsNull))))))

\* the start of the blank run that ends just before position f, not below b
RECURSIVE BackOverSpaces(_, _, _)
BackOverSpaces(s, b, f) ==
  IF f - 1 >= b /\ IsSpace(s[f - 1]) THEN BackOverSpaces(s, b, f - 1) ELSE f

\* [...responseText.matchAll(jsonBlockRegex)] from position p on: an opening fence, an
\* optional tag, blanks, the lazily captured body, blanks, the next fence.  Each match
\* is [start, end, body]; the search resumes after the closing fence.
RECURSIVE jsonBlockMatches(_, _)
jsonBlockMatches(s, p) ==
  With(FindChar(s, FENCE, p), LAMBDA open :
    With(IF open = 0 THEN 0 ELSE FindChar(s, FENCE, open + 1), LAMBDA close :
      IF open = 0 \/ close = 0 THEN <<>>
      ELSE With(SkipSpaces(s, IF s[open + 1] \in JsonTags THEN open + 2 ELSE open + 1),
                LAMBDA bodyStart :
             With(BackOverSpaces(s, bodyStart, close), LAMBDA bodyEnd :
               <<[start |-> open, end |-> close, body |-> Slice(s, bodyStart, bodyEnd - 1)]>>
                 \o jsonBlockMatches(s, close + 1)))))

\* Strategy 2: the last known key, the last opening brace at or before it, the last
\* closing brace of the whole reply
HeuristicCandidate(responseText) ==
  With(Max(LastIndexOfChar(responseText, knownKeys[1], Len(responseText)),
           LastIndexOfChar(responseText, knownKeys[2], Len(responseText))),
       LAMBDA lastKeyIndex :
    With(LastIndexOfChar(responseText, "{", lastKeyIndex), LAMBDA openBraceIndex :
      With(LastIndexOfChar(responseText, "}", Len(responseText)), LAMBDA closeBraceIndex :
        IF lastKeyIndex # 0 /\ openBraceIndex # 0 /\ closeBraceIndex # 0
             /\ closeBraceIndex > openBraceIndex
          THEN [found |-> TRUE, start |-> openBraceIndex,
                text |-> Slice(responseText, openBraceIndex, closeBraceIndex)]
          ELSE [found |-> FALSE, start |-> 0, text |-> <<>>])))

\* a selection that takes the first fenced block instead of the last one
SelectFirstBlock(reply) ==
  With(jsonBlockMatches(reply, 1), LAMBDA matches :
    IF Len(matches) > 0
      THEN With(matches[1], LAMBDA firstMatch :
             [source |-> "fence", jsonCandidate |-> firstMatch.body,
              textToRemove |-> Slice(reply, firstMatch.start, firstMatch.end),
              start |-> firstMatch.start, nMatches |-> Len(matches)])
      ELSE With(HeuristicCandidate(reply), LAMBDA h :
             IF h.found
               THEN [source |-> "heuristic", jsonCandidate |-> h.text,
                     textToRemove |-> h.text, start |-> h.start, nMatches |-> 0]
               ELSE [source |-> "none", jsonCandidate |-> <<>>,
                     textToRemove |-> <<>>, start |-> 0, nMatches |-> 0]))

\* jsonCandidate and textToRemove, with the source of the candidate and the position
\* of the occurrence that was selected
SelectCandidate(responseText) ==
  With(jsonBlockMatches(responseText, 1), LAMBDA matches :
    IF Len(matches) > 0
      THEN With(matches[Len(matches)], LAMBDA lastMatch :
             [source |-> "fence", jsonCandidate |-> lastMatch.body,
              textToRemove |-> Slice(responseText, lastMatch.start, lastMatch.end),
              start |-> lastMatch.start, nMatches |-> Len(matches)])
      ELSE With(HeuristicCandidate(responseText), LAMBDA h :
             IF h.found
               THEN [source |-> "heuristic", jsonCandidate |-> h.text,
                     textToRemove |-> h.text, start |-> h.start, nMatches |-> 0]
               ELSE [source |-> "none", jsonCandidate |-> <<>>,
                     textToRemove |-> <<>>, start |-> 0, nMatches |-> 0]))

\* the removal of the candidate from the spoken text: from the end when the text ends
\* with it, otherwise the first occurrence
RemoveCandidate(spokenText, textToRemove) ==
  IF EndsWith(spokenText, textToRemove)
    THEN With(Slice(spokenText, 1, Len(spokenText) - Len(textToRemove)), LAMBDA t : Trim(t))
    ELSE With(ReplaceFirst(spokenText, textToRemove, <<>>), LAMBDA t : Trim(t))

\* parsed.<key> of a parsed object: the last member of that name, Undefined otherwise
Member(parsed, key) ==
  IF parsed.t # "obj" THEN Undefined
  ELSE With({i \in 1..Len(parsed.x) : parsed.x[i].k = key}, LAMBDA hits :
         IF hits = {} THEN Undefined
         ELSE parsed.x[CHOOSE i \in hits : \A j \in hits : j <= i].v)

\* Array.isArray(parsed.notepad_modifications) ? it : []
ExtractModifications(parsed) ==
  With(Member(parsed, KeyMods), LAMBDA f : IF f.t = "arr" THEN f.x ELSE <<>>)

\* typeof parsed.discussion_complete === 'boolean' ? it : false
ExtractDiscussionComplete(parsed) ==
  With(Member(parsed, KeyDone), LAMBDA f : f.t = "lit" /\ f.x = <<"true">>)

NoParsingError == "none"

ParsingErrorText == "Failed to parse AI JSON response."

notepadActionText(n) == IF n > 0 THEN <<"modified notepad (", ToString(n), " ops)">> ELSE <<>>

\* a status text that never mentions the end of the discussion
discussionActionTextSilent(end) == <<>>

discussionActionText(end) == IF end THEN <<"suggests ending the discussion">> ELSE <<>>

\* a status text that also replaces an empty reply nothing was found in
EmptySpokenTextAlwaysFilled(spokenText, nMods, end, parsingError) ==
  IF nMods > 0 \/ end THEN <<"(AI ">> \o notepadActionText(nMods) \o discussionActionText(end) \o <<")">>
  ELSE <<"(AI process complete)">>

\* the status text put in place of an empty spoken text
EmptySpokenText(spokenText, nMods, end, parsingError) ==
  IF notepadActionText(nMods) # <<>> /\ discussionActionText(end) # <<>>
    THEN <<"(AI ">> \o notepadActionText(nMods) \o <<" and ">> \o discussionActionText(end) \o <<")">>
  ELSE IF notepadActionText(nMods) # <<>>
    THEN <<"(AI ">> \o notepadActionText(nMods) \o <<")">>
  ELSE IF discussionActionText(end) # <<>>
    THEN <<"(AI ">> \o discussionActionText(end) \o <<")">>
  ELSE IF parsingError = NoParsingError /\ (nMods > 0 \/ end)
    THEN <<"(AI process complete)">>
  ELSE spokenText

\* the body of parseAIResponse once the candidate c has been selected and parsed
ParsedResponse(responseText, c, parsed) ==
  LET hasCandidate == c.jsonCandidate # <<>>
      extracted == hasCandidate /\ parsed.t \in {"obj", "arr"}
      parsingError == IF hasCandidate /\ ~extracted /\ c.nMatches > 0
                        THEN ParsingErrorText ELSE NoParsingError
  IN With(IF extracted THEN ExtractModifications(parsed) ELSE <<>>,
          LAMBDA notepadModifications :
       With(extracted /\ ExtractDiscussionComplete(parsed), LAMBDA discussionShouldEnd :
         With(IF extracted /\ c.textToRemove # <<>>
                THEN RemoveCandidate(responseText, c.textToRemove)
                ELSE responseText,
              LAMBDA stripped :
           [spokenText |->
              IF Trim(stripped) = <<>>
                THEN EmptySpokenText(stripped, Len(notepadModifications),
                                     discussionShouldEnd, parsingError)
                ELSE stripped,
            notepadUpdate |->
              IF Len(notepadModifications) > 0 \/ parsingError # NoParsingError
                THEN [isNull |-> FALSE, modifications |-> notepadModifications,
                      error |-> parsingError]
                ELSE [isNull |-> TRUE, modifications |-> <<>>, error |-> NoParsingError],
            discussionShouldEnd |-> discussionShouldEnd])))

\* export const parseAIResponse
parseAIResponse(responseText) ==
  With(SelectCandidate(responseText), LAMBDA c :
    With(IF c.jsonCandidate # <<>> THEN robustJsonParse(c.jsonCandidate) ELSE JsNull,
         LAMBDA parsed : ParsedResponse(responseText, c, parsed)))

\* ------------------------------------------------------------------------
\* The step executor: executeStep with its transport, message store and failure sink
\* ------------------------------------------------------------------------

VARIABLES
  pc,                         \* where executeStep stands: idle, inflight, sleeping, done
  request,                    \* the arguments executeStep was called with
  useOpenAiApiConfig,         \* which transport realization is configured
  autoRetryCount,             \* let autoRetryCount
  cancelRequestRef,           \* state.cancelRequestRef.current
  messages,                   \* the message store behind addMessage / updateMessage
  msgId,                      \* const msgId of the running attempt (0: none yet)
  streamedText,               \* let streamedText of the running attempt
  streamedThoughts,           \* let streamedThoughts of the running attempt
  fullText,                   \* the transport's let fullText
  fullThoughts,               \* the transport's let fullThoughts
  deltaCount,                 \* deltas delivered during this call of executeStep
  transportCalls,             \* transport calls issued so far
  transportFailures,          \* calls that returned a non-abort error so far
  abortReports,               \* calls that returned the error tag AbortError so far
  retryDelay,                 \* the last retry delay, in units of RETRY_DELAY_BASE_MS
  failedStepInfo,             \* the failure sink behind state.setFailedStepInfo
  snapshotCount,              \* calls of state.setFailedStepInfo so far
  isInternalDiscussionActive, \* behind state.setIsInternalDiscussionActive
  apiKeyStatus,               \* behind setGlobalApiKeyStatus
  returned,                   \* the value executeStep returned
  thrown,                     \* the error executeStep threw
  cancelSeenAt,               \* the check point that found the cancel flag set
  cancelledInFlight           \* the cancel flag was raised while a call was in flight

execVars == <<pc, request, useOpenAiApiConfig, autoRetryCount, cancelRequestRef, messages,
              msgId, streamedText, streamedThoughts, fullText, fullThoughts, deltaCount,
              transportCalls, transportFailures, abortReports, retryDelay, failedStepInfo,
              snapshotCount, isInternalDiscussionActive, apiKeyStatus, returned, thrown,
              cancelSeenAt, cancelledInFlight>>

VARIABLES
  responseText,               \* the raw reply handed to parseAIResponse
  parsedAIResponse            \* what parseAIResponse returned for it

parserVars == <<responseText, parsedAIResponse>>

VARIABLES
  currentContent,             \* the document handed to applyNotepadModifications
  modifications,              \* the directives of the batch that forEach has visited
  newContent,                 \* let newContent
  errors                      \* const errors

notepadVars == <<currentContent, modifications, newContent, errors>>

VARIABLES
  resolverLines,              \* the lines handed to findHeaderLineIndex
  resolverTarget,             \* the target header handed to findHeaderLineIndex
  resolverResult              \* what findHeaderLineIndex returned for them

resolverVars == <<resolverLines, resolverTarget, resolverResult>>

VARIABLES
  modelDetailsForStep,        \* the model executeStep is called for
  senderForStep,              \* the role executeStep is called for
  cognitoThinkingBudget,      \* the configured budget and level of either role
  cognitoThinkingLevel,
  museThinkingBudget,
  museThinkingLevel,
  sentThinkingConfig          \* the reasoning configuration handed to the transport

VARIABLES
  jsonStr,                    \* the text handed to robustJsonParse
  jsonPlain,                  \* that text as it was written before trailing commas and
                              \* comments were put in
  jsonDefects,                \* what was put in: "none", "commas", "other"
  jsonResult                  \* what robustJsonParse returned for it

jsonVars == <<jsonStr, jsonPlain, jsonDefects, jsonResult>>

VARIABLES
  sseFrames,                  \* the frames the server sends to generateOpenAiResponse
  readerBytes,                \* what reader.read() has not delivered yet
  openAiFullText,             \* let fullText of generateOpenAiResponse
  onStreamDeltas,             \* the deltas passed to onStream, in order
  openAiResult                \* what generateOpenAiResponse returned

sseVars == <<sseFrames, readerBytes, openAiFullText, onStreamDeltas, openAiResult>>

thinkingVars == <<modelDetailsForStep, senderForStep, cognitoThinkingBudget,
                  cognitoThinkingLevel, museThinkingBudget, museThinkingLevel,
                  sentThinkingConfig>>

\* import { MAX_AUTO_RETRIES } from '../constants'
MAX_AUTO_RETRIES == 2

\* deltas the transports may deliver during one call of executeStep
MaxDeltas == 2

Some(v) == [t |-> "some", v |-> v]

None == [t |-> "none"]

\* new Error("...") for a user cancel: the canonical Cancelled error
CancelMessage == <<"user cancelled the operation">>

CancelledError == [name |-> "Error", message |-> CancelMessage]

\* result.text || "..." of a failed call
DefaultErrorMessage == <<"AI response error">>

cognitoSystemPrompt == <<"cognito system prompt">>

museSystemPrompt == <<"muse system prompt">>

\* the calls of executeStep that are explored
Requests ==
  { [stepIdentifier |-> "cognito-initial", prompt |-> <<"prompt one">>,
     modelDetailsForStep |-> [apiName |-> "model-a", supportsSystemInstruction |-> TRUE],
     senderForStep |-> "Cognito", purposeForStep |-> "cognito-to-muse",
     imageApiPartForStep |-> Undefined, userInputForFlowContext |-> Undefined,
     imageApiPartForFlowContext |-> Undefined,
     discussionLogBeforeFailureContext |-> Undefined,
     currentTurnIndexForResumeContext |-> Undefined,
     previousAISignaledStopForResumeContext |-> Undefined],
    [stepIdentifier |-> "muse-reply", prompt |-> <<"prompt two">>,
     modelDetailsForStep |-> [apiName |-> "model-b", supportsSystemInstruction |-> FALSE],
     senderForStep |-> "Muse", purposeForStep |-> "muse-to-cognito",
     imageApiPartForStep |-> Some("image"), userInputForFlowContext |-> Some(<<"question">>),
     imageApiPartForFlowContext |-> Some("image"),
     discussionLogBeforeFailureContext |-> Some(<<"turn one">>),
     currentTurnIndexForResumeContext |-> Some(1),
     previousAISignaledStopForResumeContext |-> Some(TRUE)],
    [stepIdentifier |-> "cognito-final", prompt |-> <<"prompt three">>,
     modelDetailsForStep |-> [apiName |-> "model-a", supportsSystemInstruction |-> TRUE],
     senderForStep |-> "Cognito", purposeForStep |-> "final-response",
     imageApiPartForStep |-> Undefined, userInputForFlowContext |-> Some(<<>>),
     imageApiPartForFlowContext |-> Undefined,
     discussionLogBeforeFailureContext |-> Some(<<>>),
     currentTurnIndexForResumeContext |-> Some(0),
     previousAISignaledStopForResumeContext |-> Some(FALSE)] }

\* a fenced block with one append directive and the end signal
DirectiveBlock ==
  <<FENCE, "json", "\n", "{", KeyMods, ":", "[",
    "{", "\"action\"", ":", "\"append\"", ",", "\"content\"", ":", "\"X\"", "}",
    "]", ",", KeyDone, ":", "true", "}", "\n", FENCE>>

\* a fenced block no repair can parse
BrokenBlock == <<FENCE, "json", "\n", "{", KeyDone, ":", "\n", FENCE>>

\* the chunks a transport may deliver: prose with thoughts, a directive block, a
\* broken block (the OpenAI-compatible transport passes on the text only)
Deltas ==
  { [text |-> <<"Hello", "\n">>, thoughts |-> <<"thinking">>],
    [text |-> DirectiveBlock, thoughts |-> <<>>],
    [text |-> BrokenBlock, thoughts |-> <<>>] }

\* the error results a transport may return: {text, durationMs: 0, error}
ErrorResults ==
  { [text |-> <<"network down">>, error |-> "AI Error"],
    [text |-> <<>>, error |-> "AI Error"],
    [text |-> CancelMessage, error |-> "AbortError"] }

\* addMessage(text, sender, purpose): a new message with a fresh id, appended
NewMessage(text, sender, purpose) ==
  [id |-> Len(messages) + 1, text |-> text, sender |-> sender, purpose |-> purpose,
   thoughts |-> <<>>, durationMs |-> "unset"]

\* an update that writes to every message of the sender of message id, so that a retry
\* writes to the message of the failed attempt as well
UpdatedMessagesOfSender(msgs, id, text, thoughts, durationMs) ==
  [i \in 1..Len(msgs) |->
     IF \E k \in 1..Len(msgs) : msgs[k].id = id /\ msgs[k].sender = msgs[i].sender
       THEN [msgs[i] EXCEPT !.text = text, !.thoughts = thoughts,
                            !.durationMs = IF durationMs = "keep" THEN @ ELSE durationMs]
       ELSE msgs[i]]

\* updateMessage(id, {text, thoughts}) and updateMessage(id, {text, thoughts, durationMs})
UpdatedMessages(msgs, id, text, thoughts, durationMs) ==
  [i \in 1..Len(msgs) |->
     IF msgs[i].id = id
       THEN [msgs[i] EXCEPT !.text = text, !.thoughts = thoughts,
                            !.durationMs = IF durationMs = "keep" THEN @ ELSE durationMs]
       ELSE msgs[i]]

\* senderForStep === MessageSender.Cognito ? cognitoSystemPrompt : museSystemPrompt
systemInstructionToUse(req) ==
  IF req.senderForStep = "Cognito" THEN cognitoSystemPrompt ELSE museSystemPrompt

\* x || fallback for an optional argument that is a string or a list
OrElse(x, fallback) == IF x.t = "some" /\ x.v # <<>> THEN x.v ELSE fallback

\* a snapshot that forgets the turn index to resume at
FailedStepPayloadWithoutTurn(req, errorMsgId) ==
  [stepIdentifier |-> req.stepIdentifier, prompt |-> req.prompt,
   modelName |-> req.modelDetailsForStep.apiName,
   systemInstruction |-> systemInstructionToUse(req),
   imageApiPart |-> req.imageApiPartForStep,
   sender |-> req.senderForStep, purpose |-> req.purposeForStep,
   originalSystemErrorMsgId |-> errorMsgId,
   userInputForFlow |-> OrElse(req.userInputForFlowContext, <<>>),
   imageApiPartForFlow |-> req.imageApiPartForFlowContext,
   discussionLogBeforeFailure |-> OrElse(req.discussionLogBeforeFailureContext, <<>>),
   currentTurnIndexForResume |-> Undefined,
   previousAISignaledStopForResume |-> req.previousAISignaledStopForResumeContext]

\* the object handed to state.setFailedStepInfo
FailedStepPayload(req, errorMsgId) ==
  [stepIdentifier |-> req.stepIdentifier, prompt |-> req.prompt,
   modelName |-> req.modelDetailsForStep.apiName,
   systemInstruction |-> systemInstructionToUse(req),
   imageApiPart |-> req.imageApiPartForStep,
   sender |-> req.senderForStep, purpose |-> req.purposeForStep,
   originalSystemErrorMsgId |-> errorMsgId,
   userInputForFlow |-> OrElse(req.userInputForFlowContext, <<>>),
   imageApiPartForFlow |-> req.imageApiPartForFlowContext,
   discussionLogBeforeFailure |-> OrElse(req.discussionLogBeforeFailureContext, <<>>),
   currentTurnIndexForResume |-> req.currentTurnIndexForResumeContext,
   previousAISignaledStopForResume |-> req.previousAISignaledStopForResumeContext]

\* a cancel check that is made on the first attempt only
CancelRequestedOnFirstAttempt == cancelRequestRef /\ autoRetryCount = 0

\* if (state.cancelRequestRef.current) at the top of the loop and after the call
CancelRequested == cancelRequestRef

\* autoRetryCount < MAX_AUTO_RETRIES in the catch block
RetryAllowed(count) == count < MAX_AUTO_RETRIES

\* the error thrown inside the try block for a transport result, None on success
ThrownInTry(result) ==
  IF CancelRequested THEN Some(CancelledError)
  ELSE IF result.error # "none"
    THEN IF result.error = "AbortError" THEN Some(CancelledError)
         ELSE Some([name |-> "Error",
                    message |-> IF result.text # <<>> THEN result.text
                                ELSE DefaultErrorMessage])
  ELSE None

\* a catch block that recognises a cancel by the name of the error only
CaughtAsCancelByName(error) == error.name = "AbortError"

\* the cancel test of the catch block
CaughtAsCancel(error) == CancelRequested \/ error.name = "AbortError"

\* parsedResponse! when the loop ends without a success
NullResponse == [spokenText |-> <<>>,
                 notepadUpdate |-> [isNull |-> TRUE, modifications |-> <<>>,
                                    error |-> NoParsingError],
                 discussionShouldEnd |-> FALSE]

\* the top of the while loop with autoRetryCount = count: the loop condition, the cancel
\* check, the placeholder message, the transport call (up to its await)
LoopTop(count) ==
  /\ autoRetryCount' = count
  /\ IF ~(count <= MAX_AUTO_RETRIES)
       THEN /\ pc' = "done"
            /\ returned' = Some(NullResponse)
            /\ UNCHANGED <<messages, msgId, streamedText, streamedThoughts, fullText,
                           fullThoughts, deltaCount, transportCalls, thrown, cancelSeenAt>>
     ELSE IF CancelRequested
       THEN /\ pc' = "done"
            /\ thrown' = Some(CancelledError)
            /\ cancelSeenAt' = "top"
            /\ UNCHANGED <<messages, msgId, streamedText, streamedThoughts, fullText,
                           fullThoughts, deltaCount, transportCalls, returned>>
     ELSE /\ messages' = Append(messages,
                                NewMessage(<<>>, request.senderForStep, request.purposeForStep))
          /\ msgId' = Len(messages) + 1
          /\ streamedText' = <<>>
          /\ streamedThoughts' = <<>>
          /\ fullText' = <<>>
          /\ fullThoughts' = <<>>
          /\ transportCalls' = transportCalls + 1
          /\ pc' = "inflight"
          /\ UNCHANGED <<deltaCount, thrown, cancelSeenAt, returned>>
  /\ UNCHANGED <<request, useOpenAiApiConfig, cancelRequestRef, transportFailures,
                 abortReports, retryDelay, failedStepInfo, snapshotCount,
                 isInternalDiscussionActive, apiKeyStatus, cancelledInFlight>>

\* the call of executeStep
ExecuteStep ==
  /\ pc = "idle"
  /\ LoopTop(0)

\* a stream handler that shows the text of the last chunk instead of the text so far
StreamDeltaShowingChunk(chunk) ==
  LET text == chunk.text
      thoughts == IF useOpenAiApiConfig THEN <<>> ELSE chunk.thoughts
  IN /\ pc = "inflight"
     /\ deltaCount < MaxDeltas
     /\ deltaCount' = deltaCount + 1
     /\ fullText' = fullText \o text
     /\ fullThoughts' = fullThoughts \o thoughts
     /\ streamedText' = streamedText \o text
     /\ streamedThoughts' = streamedThoughts \o thoughts
     /\ messages' = UpdatedMessages(messages, msgId, text, thoughts, "keep")
     /\ UNCHANGED <<pc, request, useOpenAiApiConfig, autoRetryCount, cancelRequestRef, msgId,
                    transportCalls, transportFailures, abortReports, retryDelay,
                    failedStepInfo, snapshotCount, isInternalDiscussionActive, apiKeyStatus,
                    returned, thrown, cancelSeenAt, cancelledInFlight>>

\* the transport reads a chunk, adds it to its own totals and calls streamHandler,
\* which adds it to the attempt's totals and updates the attempt's message
StreamDelta(chunk) ==
  LET text == chunk.text
      thoughts == IF useOpenAiApiConfig THEN <<>> ELSE chunk.thoughts
  IN /\ pc = "inflight"
     /\ deltaCount < MaxDeltas
     /\ deltaCount' = deltaCount + 1
     /\ fullText' = fullText \o text
     /\ fullThoughts' = fullThoughts \o thoughts
     /\ streamedText' = streamedText \o text
     /\ streamedThoughts' = streamedThoughts \o thoughts
     /\ messages' = UpdatedMessages(messages, msgId, streamedText \o text,
                                    streamedThoughts \o thoughts, "keep")
     /\ UNCHANGED <<pc, request, useOpenAiApiConfig, autoRetryCount, cancelRequestRef, msgId,
                    transportCalls, transportFailures, abortReports, retryDelay,
                    failedStepInfo, snapshotCount, isInternalDiscussionActive, apiKeyStatus,
                    returned, thrown, cancelSeenAt, cancelledInFlight>>

\* a retry notice that is worded as a failure notice
RetryNoticeAsFailure(error) ==
  NewMessage(<<"failed: ">> \o error.message, "System", "system-notification")

\* addMessage of the retry notice
RetryNotice(error) ==
  NewMessage(<<"[retry] ">> \o error.message, "System", "system-notification")

\* addMessage of the failure notice
FailureNotice(error) ==
  NewMessage(<<"failed: ">> \o error.message, "System", "system-notification")

\* the catch block for an error thrown in the try block
Catch(error) ==
  IF CaughtAsCancel(error)
    THEN /\ pc' = "done"
         /\ thrown' = Some(CancelledError)
         /\ cancelSeenAt' = IF CancelRequested THEN "afterCall" ELSE cancelSeenAt
         /\ UNCHANGED <<messages, autoRetryCount, retryDelay, failedStepInfo, snapshotCount,
                        isInternalDiscussionActive>>
  ELSE IF RetryAllowed(autoRetryCount)
    THEN /\ messages' = Append(messages, RetryNotice(error))
         /\ retryDelay' = autoRetryCount + 1
         /\ pc' = "sleeping"
         /\ UNCHANGED <<autoRetryCount, thrown, cancelSeenAt, failedStepInfo, snapshotCount,
                        isInternalDiscussionActive>>
  ELSE /\ messages' = Append(messages, FailureNotice(error))
       /\ failedStepInfo' = Some(FailedStepPayload(request, Len(messages) + 1))
       /\ snapshotCount' = snapshotCount + 1
       /\ isInternalDiscussionActive' = FALSE
       /\ thrown' = Some(error)
       /\ pc' = "done"
       /\ UNCHANGED <<autoRetryCount, retryDelay, cancelSeenAt>>

\* a continuation whose final update leaves the text of the reply in the message
AfterCallShowingReply(result) ==
  LET e == ThrownInTry(result)
  IN /\ IF e.t = "none"
          THEN \E parsedResponse \in {parseAIResponse(result.text)} :
                  /\ apiKeyStatus' = "ok"
                  /\ messages' = UpdatedMessages(messages, msgId, result.text,
                                                 result.thoughts, "elapsed")
                  /\ returned' = Some(parsedResponse)
                  /\ autoRetryCount' = autoRetryCount + 1
                  /\ pc' = "done"
                  /\ UNCHANGED <<thrown, cancelSeenAt, retryDelay, failedStepInfo,
                                 snapshotCount, isInternalDiscussionActive>>
          ELSE /\ Catch(e.v)
               /\ UNCHANGED <<apiKeyStatus, returned>>
     /\ UNCHANGED <<request, useOpenAiApiConfig, cancelRequestRef, msgId, streamedText,
                    streamedThoughts, fullText, fullThoughts, deltaCount, transportCalls,
                    cancelledInFlight>>

\* the continuation of executeStep once the awaited transport call has returned result
AfterCall(result) ==
  LET e == ThrownInTry(result)
  IN /\ IF e.t = "none"
          THEN \E parsedResponse \in {parseAIResponse(result.text)} :
                  /\ apiKeyStatus' = "ok"
                  /\ messages' = UpdatedMessages(messages, msgId, parsedResponse.spokenText,
                                                 result.thoughts, "elapsed")
                  /\ returned' = Some(parsedResponse)
                  /\ autoRetryCount' = autoRetryCount + 1
                  /\ pc' = "done"
                  /\ UNCHANGED <<thrown, cancelSeenAt, retryDelay, failedStepInfo,
                                 snapshotCount, isInternalDiscussionActive>>
          ELSE /\ Catch(e.v)
               /\ UNCHANGED <<apiKeyStatus, returned>>
     /\ UNCHANGED <<request, useOpenAiApiConfig, cancelRequestRef, msgId, streamedText,
                    streamedThoughts, fullText, fullThoughts, deltaCount, transportCalls,
                    cancelledInFlight>>

\* the transport returns { text: fullText, thoughts: fullThoughts, durationMs }
TransportSucceeds ==
  /\ pc = "inflight"
  /\ AfterCall([text |-> fullText, thoughts |-> fullThoughts, error |-> "none"])
  /\ UNCHANGED <<transportFailures, abortReports>>

\* the transport returns { text, durationMs, error }
TransportFails(result) ==
  /\ pc = "inflight"
  /\ AfterCall([text |-> result.text, thoughts |-> <<>>, error |-> result.error])
  /\ transportFailures' = transportFailures + (IF result.error = "AbortError" THEN 0 ELSE 1)
  /\ abortReports' = abortReports + (IF result.error = "AbortError" THEN 1 ELSE 0)

\* the retry delay has elapsed: autoRetryCount++ and the next round of the loop
RetryDelayElapsed ==
  /\ pc = "sleeping"
  /\ LoopTop(autoRetryCount + 1)

\* the user stops the generation: the shared cancel flag is raised
Cancel ==
  /\ pc \in {"idle", "inflight", "sleeping"}
  /\ ~cancelRequestRef
  /\ cancelRequestRef' = TRUE
  /\ cancelledInFlight' = (pc = "inflight")
  /\ UNCHANGED <<pc, request, useOpenAiApiConfig, autoRetryCount, messages, msgId,
                 streamedText, streamedThoughts, fullText, fullThoughts, deltaCount,
                 transportCalls, transportFailures, abortReports, retryDelay, failedStepInfo,
                 snapshotCount, isInternalDiscussionActive, apiKeyStatus, returned, thrown,
                 cancelSeenAt>>

ExecInit ==
  /\ pc = "idle"
  /\ request \in Requests
  /\ useOpenAiApiConfig \in BOOLEAN
  /\ autoRetryCount = 0
  /\ cancelRequestRef = FALSE
  /\ messages = <<>>
  /\ msgId = 0
  /\ streamedText = <<>>
  /\ streamedThoughts = <<>>
  /\ fullText = <<>>
  /\ fullThoughts = <<>>
  /\ deltaCount = 0
  /\ transportCalls = 0
  /\ transportFailures = 0
  /\ abortReports = 0
  /\ retryDelay = 0
  /\ failedStepInfo = None
  /\ snapshotCount = 0
  /\ isInternalDiscussionActive = TRUE
  /\ apiKeyStatus = "unset"
  /\ returned = None
  /\ thrown = None
  /\ cancelSeenAt = "none"
  /\ cancelledInFlight = FALSE

\* the parser at rest: nothing handed in, nothing returned
ParserIdle ==
  /\ responseText = <<>>
  /\ parsedAIResponse = None

\* the patch engine at rest: an empty document, no directive
NotepadIdle ==
  /\ currentContent = <<>>
  /\ modifications = <<>>
  /\ newContent = <<>>
  /\ errors = <<>>

\* import { GEMINI_3_PRO_MODEL_ID } from '../constants'
GEMINI_3_PRO_MODEL_ID == "gemini-3-pro-preview"

\* the models: the one with leveled reasoning and another one, each with
\* supportsThinkingConfig true, false or left out
ThinkingModels ==
  [apiName : {GEMINI_3_PRO_MODEL_ID, "model-a"},
   supportsThinkingConfig : {Some(TRUE), Some(FALSE), Undefined}]

\* the budgets that may be configured: disabled, the auto sentinel, a number
ThinkingBudgets == {0, -1, 2048}

\* type ThinkingLevel, two of its four values
ThinkingLevels == {"LOW", "HIGH"}

\* no derivation of a reasoning configuration is going on
ThinkingIdle ==
  /\ modelDetailsForStep = CHOOSE m \in ThinkingModels : TRUE
  /\ senderForStep = "Cognito"
  /\ cognitoThinkingBudget = 0
  /\ cognitoThinkingLevel = "LOW"
  /\ museThinkingBudget = 0
  /\ museThinkingLevel = "LOW"
  /\ sentThinkingConfig = None

\* robustJsonParse at rest
JsonIdle ==
  /\ jsonStr = <<>>
  /\ jsonPlain = <<>>
  /\ jsonDefects = "none"
  /\ jsonResult = None

\* generateOpenAiResponse at rest
SseIdle ==
  /\ sseFrames = <<>>
  /\ readerBytes = <<>>
  /\ openAiFullText = <<>>
  /\ onStreamDeltas = <<>>
  /\ openAiResult = None

\* the header resolver at rest
ResolverIdle ==
  /\ resolverLines = <<>>
  /\ resolverTarget = <<>>
  /\ resolverResult = None

ExecNext ==
  \/ ExecuteStep
      /\ UNCHANGED <<parserVars, notepadVars, resolverVars, thinkingVars, jsonVars, sseVars>>
  \/ \E chunk \in Deltas : StreamDelta(chunk)
      /\ UNCHANGED <<parserVars, notepadVars, resolverVars, thinkingVars, jsonVars, sseVars>>
  \/ TransportSucceeds
      /\ UNCHANGED <<parserVars, notepadVars, resolverVars, thinkingVars, jsonVars, sseVars>>
  \/ \E result \in ErrorResults : TransportFails(result)
      /\ UNCHANGED <<parserVars, notepadVars, resolverVars, thinkingVars, jsonVars, sseVars>>
  \/ RetryDelayElapsed
      /\ UNCHANGED <<parserVars, notepadVars, resolverVars, thinkingVars, jsonVars, sseVars>>
  \/ Cancel /\ UNCHANGED <<parserVars, notepadVars, resolverVars, thinkingVars, jsonVars, sseVars>>

vars == <<execVars, parserVars, notepadVars, resolverVars, thinkingVars, jsonVars, sseVars>>

Init == ExecInit /\ ParserIdle /\ NotepadIdle /\ ResolverIdle /\ ThinkingIdle /\ JsonIdle /\ SseIdle

Next == ExecNext

Spec == Init /\ [][Next]_vars

\* ------------------------------------------------------------------------
\* parseAIResponse applied to bounded replies
\* ------------------------------------------------------------------------

\* the longest reply, in pieces
MaxPieces == 4

\* a fenced block without a tag that carries no directive and does not end the discussion
QuietBlock == <<FENCE, "{", KeyDone, ":", "false", "}", FENCE>>

\* a fenced block with one directive and no end signal
EditBlock ==
  <<FENCE, "{", KeyMods, ":", "[",
    "{", "\"action\"", ":", "\"append\"", ",", "\"content\"", ":", "\"X\"", "}",
    "]", "}", FENCE>>

\* a bare object of the reply, outside any fence
BareObject == <<"{", KeyDone, ":", "true", "}">>

\* what a reply is made of: prose, a line break, fenced blocks, a bare object, a lone fence
ReplyPieces == {<<"Hello">>, <<"\n">>, DirectiveBlock, QuietBlock, BrokenBlock, BareObject,
                <<FENCE>>}

\* the pieces f[1] .. f[n] put together
RECURSIVE Joined(_, _)
Joined(f, n) == IF n = 0 THEN <<>> ELSE Joined(f, n - 1) \o f[n]

Replies == UNION {{Joined(f, n) : f \in [1..n -> ReplyPieces]} : n \in 0..MaxPieces}

\* the step executor at rest
ExecIdle ==
  /\ ExecInit
  /\ request = CHOOSE r \in Requests : TRUE
  /\ useOpenAiApiConfig = FALSE

ParserInit ==
  /\ responseText \in Replies
  /\ parsedAIResponse = None
  /\ ExecIdle
  /\ NotepadIdle
  /\ ResolverIdle
  /\ ThinkingIdle
  /\ JsonIdle
  /\ SseIdle

\* one call of parseAIResponse
Parse ==
  /\ parsedAIResponse = None
  /\ \E result \in {parseAIResponse(responseText)} : parsedAIResponse' = Some(result)
  /\ UNCHANGED <<responseText, execVars, notepadVars, resolverVars, thinkingVars, jsonVars,
                 sseVars>>

ParserNext == Parse

SpecParser == ParserInit /\ [][ParserNext]_vars

\* ------------------------------------------------------------------------
\* parseAIResponse applied to replies that leave little or nothing to show
\* ------------------------------------------------------------------------

\* what such a reply is made of: prose, a line break, and the blocks with a directive
\* and the end signal, with a directive only, with neither, a broken one, and the bare
\* object with the end signal
StatusPieces == {<<"Hello">>, <<"\n">>, DirectiveBlock, EditBlock, QuietBlock, BrokenBlock,
                 BareObject}

StatusReplies == UNION {{Joined(f, n) : f \in [1..n -> StatusPieces]} : n \in 0..MaxPieces}

StatusInit ==
  /\ responseText \in StatusReplies
  /\ parsedAIResponse = None
  /\ ExecIdle
  /\ NotepadIdle
  /\ ResolverIdle
  /\ ThinkingIdle
  /\ JsonIdle
  /\ SseIdle

SpecStatus == StatusInit /\ [][ParserNext]_vars

\* ------------------------------------------------------------------------
\* The notepad patch engine: findHeaderLineIndex and applyNotepadModifications
\* ------------------------------------------------------------------------

\* the number of leading characters of s that are in the class C
LeadingRun(s, C) ==
  With({i \in 1..Len(s) : s[i] \notin C}, LAMBDA others :
    IF others = {} THEN Len(s) ELSE (CHOOSE i \in others : \A j \in others : i <= j) - 1)

\* the number of trailing characters of s that are in the class C
TrailingRun(s, C) ==
  With({i \in 1..Len(s) : s[i] \notin C}, LAMBDA others :
    IF others = {} THEN Len(s) ELSE Len(s) - (CHOOSE i \in others : \A j \in others : j <= i))

\* newContent.split('\n')
Split(s) ==
  With({i \in 1..Len(s) : s[i] = "\n"} \cup {0, Len(s) + 1}, LAMBDA breaks :
    [k \in 1..(Cardinality(breaks) - 1) |->
       With(CHOOSE i \in breaks : Cardinality({j \in breaks : j < i}) = k - 1, LAMBDA from :
         With(CHOOSE i \in breaks : Cardinality({j \in breaks : j < i}) = k, LAMBDA to :
           Slice(s, from + 1, to - 1)))])

\* [...].join('\n')
RECURSIVE Join(_)
Join(lines) ==
  IF lines = <<>> THEN <<>>
  ELSE IF Len(lines) = 1 THEN lines[1]
  ELSE With(Len(lines) \div 2, LAMBDA half :
         Join(SubSeq(lines, 1, half)) \o <<"\n">> \o Join(SubSeq(lines, half + 1, Len(lines))))

\* finalContent.replace of every run of three or more line breaks by two line breaks
RECURSIVE CollapseNewlines(_)
CollapseNewlines(s) ==
  With(IndexOf(s, <<"\n", "\n", "\n">>), LAMBDA i :
    IF i = 0 THEN s
    ELSE With(LeadingRun(Slice(s, i, Len(s)), {"\n"}), LAMBDA run :
           With(Slice(s, i + run, Len(s)), LAMBDA rest :
             Slice(s, 1, i - 1) \o <<"\n", "\n">> \o CollapseNewlines(rest))))

UpperCase == <<"A", "B", "C", "D", "E", "F", "G", "H", "I", "J", "K", "L", "M",
               "N", "O", "P", "Q", "R", "S", "T", "U", "V", "W", "X", "Y", "Z">>

LowerCase == <<"a", "b", "c", "d", "e", "f", "g", "h", "i", "j", "k", "l", "m",
               "n", "o", "p", "q", "r", "s", "t", "u", "v", "w", "x", "y", "z">>

Digits == {"0", "1", "2", "3", "4", "5", "6", "7", "8", "9"}

\* characters outside ASCII, each a single character of the document
LeftDoubleQuote == "[left double quote]"

RightDoubleQuote == "[right double quote]"

LeftSingleQuote == "[left single quote]"

RightSingleQuote == "[right single quote]"

FullWidthColon == "[full-width colon]"

IdeographicFullStop == "[ideographic full stop]"

\* a Chinese character of the range the aggressive cleaning keeps
Ideographs == {"[zhong]", "[wen]"}

\* s.toLowerCase()
ToLowerCase(s) ==
  [i \in 1..Len(s) |->
     IF \E k \in 1..Len(UpperCase) : UpperCase[k] = s[i]
       THEN LowerCase[CHOOSE k \in 1..Len(UpperCase) : UpperCase[k] = s[i]]
       ELSE s[i]]

\* the quote and colon replacements of normalize
AsciiPunctuation(s) ==
  [i \in 1..Len(s) |->
     IF s[i] \in {LeftDoubleQuote, RightDoubleQuote} THEN "\""
     ELSE IF s[i] \in {LeftSingleQuote, RightSingleQuote} THEN "'"
     ELSE IF s[i] = FullWidthColon THEN ":"
     ELSE s[i]]

\* the removal of one trailing punctuation mark
DropTrailingPunctuation(s) ==
  IF s # <<>> /\ s[Len(s)] \in {":", FullWidthColon, ".", IdeographicFullStop}
    THEN Slice(s, 1, Len(s) - 1) ELSE s

\* a normalization that keeps the case of the letters
normalizeKeepingCase(s) ==
  With(Slice(s, LeadingRun(s, {"#", " ", "\n", "*", "_", "-"}) + 1, Len(s)), LAMBDA s1 :
    With(Slice(s1, 1, Len(s1) - TrailingRun(s1, {"*", "_", "~"})), LAMBDA s2 :
      With(Trim(s2), LAMBDA s3 :
        With(AsciiPunctuation(s3), LAMBDA s4 :
          With(DropTrailingPunctuation(s4), LAMBDA s5 : Trim(s5))))))

\* const normalize
normalize(s) ==
  With(Slice(s, LeadingRun(s, {"#", " ", "\n", "*", "_", "-"}) + 1, Len(s)), LAMBDA s1 :
    With(Slice(s1, 1, Len(s1) - TrailingRun(s1, {"*", "_", "~"})), LAMBDA s2 :
      With(Trim(s2), LAMBDA s3 :
        With(AsciiPunctuation(ToLowerCase(s3)), LAMBDA s4 :
          With(DropTrailingPunctuation(s4), LAMBDA s5 : Trim(s5))))))

\* a word character of a regular expression, or a Chinese character
IsWordChar(c) ==
  \/ \E k \in 1..Len(UpperCase) : c = UpperCase[k] \/ c = LowerCase[k]
  \/ c \in Digits \cup {"_"} \cup Ideographs

\* const superClean
superClean(s) == SelectSeq(s, IsWordChar)

\* the result of findHeaderLineIndex when no line is found
HeaderNotFound == [index |-> -1, level |-> 0]

\* headerText and level of a trimmed, non-empty line: a marker header, a bold line,
\* or a short line taken as it is
HeaderOf(line) ==
  With(LeadingRun(line, {"#"}), LAMBDA hashes :
    IF hashes > 0
      THEN [level |-> hashes, headerText |-> Trim(Slice(line, hashes + 1, Len(line)))]
    ELSE IF /\ Len(line) >= 4
            /\ (StartsWith(line, <<"*", "*">>) \/ StartsWith(line, <<"_", "_">>))
            /\ (EndsWith(line, <<"*", "*">>) \/ EndsWith(line, <<"_", "_">>))
      THEN [level |-> 4, headerText |-> Trim(Slice(line, 3, Len(line) - 2))]
    ELSE IF Len(line) < 100
      THEN [level |-> 3, headerText |-> line]
    ELSE [level |-> 0, headerText |-> <<>>])

\* matching rules that take a substring whatever the length of the target
HeaderMatchesAnyLength(headerText, normalizedTarget, superCleanTarget) ==
  With(normalize(headerText), LAMBDA normalizedHeader :
    With(superClean(normalizedHeader), LAMBDA superCleanHeader :
      \/ normalizedHeader = normalizedTarget
      \/ Includes(normalizedHeader, normalizedTarget)
      \/ Includes(normalizedTarget, normalizedHeader)
      \/ Includes(superCleanHeader, superCleanTarget)
      \/ Includes(superCleanTarget, superCleanHeader)))

\* the three matching rules of the first pass
HeaderMatches(headerText, normalizedTarget, superCleanTarget) ==
  With(normalize(headerText), LAMBDA normalizedHeader :
    With(superClean(normalizedHeader), LAMBDA superCleanHeader :
      \/ normalizedHeader = normalizedTarget
      \/ /\ Len(normalizedTarget) > 2
         /\ \/ Includes(normalizedHeader, normalizedTarget)
            \/ Includes(normalizedTarget, normalizedHeader)
      \/ /\ Len(superCleanTarget) > 2
         /\ Len(superCleanHeader) > 2
         /\ \/ superCleanHeader = superCleanTarget
            \/ Includes(superCleanHeader, superCleanTarget)
            \/ Includes(superCleanTarget, superCleanHeader)))

\* headerText and level of line i (i counts from 0, as in the code)
HeaderAt(lines, i) ==
  With(Trim(lines[i + 1]), LAMBDA line :
    IF line = <<>> THEN [level |-> 0, headerText |-> <<>>] ELSE HeaderOf(line))

\* the first pass from line i on: the first line whose header text matches
FirstPass(lines, i, normalizedTarget, superCleanTarget) ==
  With({k \in i..(Len(lines) - 1) :
          With(HeaderAt(lines, k), LAMBDA h :
            h.headerText # <<>>
              /\ HeaderMatches(h.headerText, normalizedTarget, superCleanTarget))},
       LAMBDA hits :
         IF hits = {} THEN HeaderNotFound
         ELSE With(CHOOSE k \in hits : \A j \in hits : k <= j, LAMBDA first :
                [index |-> first, level |-> HeaderAt(lines, first).level]))

\* the last pass from line i on: any non-empty line that holds the target or is held by it
LastPass(lines, i, normalizedTarget) ==
  With({k \in i..(Len(lines) - 1) :
          With(ToLowerCase(Trim(lines[k + 1])), LAMBDA line :
            line # <<>>
              /\ (Includes(line, normalizedTarget) \/ Includes(normalizedTarget, line)))},
       LAMBDA hits :
         IF hits = {} THEN HeaderNotFound
         ELSE [index |-> CHOOSE k \in hits : \A j \in hits : k <= j, level |-> 2])

\* const findHeaderLineIndex
findHeaderLineIndex(lines, targetHeader) ==
  IF targetHeader = <<>> THEN HeaderNotFound
  ELSE With(normalize(targetHeader), LAMBDA normalizedTarget :
         With(superClean(normalizedTarget), LAMBDA superCleanTarget :
           IF normalizedTarget = <<>> /\ superCleanTarget = <<>> THEN HeaderNotFound
           ELSE With(FirstPass(lines, 0, normalizedTarget, superCleanTarget), LAMBDA first :
                  IF first.index # -1 THEN first
                  ELSE LastPass(lines, 0, normalizedTarget))))

\* the characters escapeRegExp puts a backslash before
RegExpSpecials == {".", "*", "+", "?", "^", "$", "{", "}", "(", ")", "|", "[", "]", "\\"}

\* import { escapeRegExp } from './commonUtils': a backslash before every character
\* that is special in a regular expression
RECURSIVE escapeRegExp(_)
escapeRegExp(s) ==
  IF s = <<>> THEN <<>>
  ELSE With(Tail(s), LAMBDA rest :
         (IF s[1] \in RegExpSpecials THEN <<"\\", s[1]>> ELSE <<s[1]>>) \o escapeRegExp(rest))

\* new RegExp(source, 'g') for a source of plain and backslash-escaped characters: the
\* text the expression matches
RECURSIVE RegExpText(_)
RegExpText(source) ==
  IF source = <<>> THEN <<>>
  ELSE IF source[1] = "\\" /\ Len(source) >= 2
    THEN With(Slice(source, 3, Len(source)), LAMBDA rest : <<source[2]>> \o RegExpText(rest))
  ELSE With(Tail(source), LAMBDA rest : <<source[1]>> \o RegExpText(rest))

\* the replacement patterns of String.prototype.replace: two dollar signs stand for
\* one, a dollar sign and an ampersand for the matched text
RECURSIVE ExpandReplacement(_, _)
ExpandReplacement(replacement, matched) ==
  IF replacement = <<>> THEN <<>>
  ELSE IF Len(replacement) >= 2 /\ replacement[1] = "$" /\ replacement[2] \in {"$", "&"}
    THEN With(Slice(replacement, 3, Len(replacement)), LAMBDA rest :
           (IF replacement[2] = "$" THEN <<"$">> ELSE matched)
             \o ExpandReplacement(rest, matched))
  ELSE With(Tail(replacement), LAMBDA rest :
         <<replacement[1]>> \o ExpandReplacement(rest, matched))

\* newContent.replace(searchString, replacement): the first occurrence of a string
ReplaceString(s, searchString, replacement) ==
  With(IndexOf(s, searchString), LAMBDA i :
    IF i = 0 THEN s
    ELSE Slice(s, 1, i - 1) \o ExpandReplacement(replacement, searchString)
           \o Slice(s, i + Len(searchString), Len(s)))

\* newContent.replace(regex, replacement) with the flag g: every occurrence of the
\* text, left to right without overlap; an empty text matches before every character
\* and at the end
RECURSIVE ReplaceRegExp(_, _, _)
ReplaceRegExp(s, text, replacement) ==
  With(ExpandReplacement(replacement, text), LAMBDA expanded :
    IF text = <<>>
      THEN IF s = <<>> THEN expanded
           ELSE With(Tail(s), LAMBDA rest :
                  expanded \o <<s[1]>> \o ReplaceRegExp(rest, text, replacement))
    ELSE With(IndexOf(s, text), LAMBDA i :
           IF i = 0 THEN s
           ELSE With(Slice(s, i + Len(text), Len(s)), LAMBDA rest :
                  Slice(s, 1, i - 1) \o expanded \o ReplaceRegExp(rest, text, replacement))))

\* a level that is 1 for every marker header, so that a nested header ends a section
MarkerLevelFlat(rawLine) ==
  With(Trim(rawLine), LAMBDA line :
    With(LeadingRun(line, {"#"}), LAMBDA hashes :
      IF hashes > 0 /\ hashes < Len(line) /\ IsSpace(line[hashes + 1]) THEN 1 ELSE 0))

\* the level of a line that is a marker header followed by a blank, 0 for other lines
MarkerLevel(rawLine) ==
  With(Trim(rawLine), LAMBDA line :
    With(LeadingRun(line, {"#"}), LAMBDA hashes :
      IF hashes > 0 /\ hashes < Len(line) /\ IsSpace(line[hashes + 1]) THEN hashes ELSE 0))

\* the first line after startLineIndex that is a marker header of a level up to
\* headerLevel, lines.length when there is none (lines count from 0)
SectionEnd(lines, i, headerLevel) ==
  With({k \in i..(Len(lines) - 1) :
          With(MarkerLevel(lines[k + 1]), LAMBDA currentLevel :
            currentLevel > 0 /\ currentLevel <= headerLevel)},
       LAMBDA ends :
         IF ends = {} THEN Len(lines) ELSE CHOOSE k \in ends : \A j \in ends : k <= j)

\* an entry of the error list: the position of the directive in the batch, its
\* action, whether it failed or only warns, and the header or search text it names
ErrorEntry(actionNum, action, kind, subject) ==
  [actionNum |-> actionNum, action |-> action, kind |-> kind, subject |-> subject]

\* a replace_section that tidies the blank lines of the document also when the header
\* was not found
ReplaceSectionTidyingOnFailure(content, errs, mod, actionNum) ==
  With(Split(content), LAMBDA lines :
    With(findHeaderLineIndex(lines, mod.header), LAMBDA found :
      IF found.index = -1
        THEN [newContent |-> CollapseNewlines(content),
              errors |-> Append(errs, ErrorEntry(actionNum, mod.action, "failed", mod.header))]
        ELSE With(SectionEnd(lines, found.index + 1, found.level), LAMBDA endLineIndex :
               LET before == SubSeq(lines, 1, found.index + 1)
                   after == Slice(lines, endLineIndex + 1, Len(lines))
                   contentToInsert == IF StartsWith(mod.content, <<"\n">>)
                                        THEN mod.content ELSE <<"\n">> \o mod.content
               IN With(Join(before \o <<contentToInsert>> \o after), LAMBDA finalContent :
                    [newContent |-> CollapseNewlines(finalContent), errors |-> errs]))))

\* case 'replace_section'
ReplaceSection(content, errs, mod, actionNum) ==
  With(Split(content), LAMBDA lines :
    With(findHeaderLineIndex(lines, mod.header), LAMBDA found :
      IF found.index = -1
        THEN [newContent |-> content,
              errors |-> Append(errs, ErrorEntry(actionNum, mod.action, "failed", mod.header))]
        ELSE With(SectionEnd(lines, found.index + 1, found.level), LAMBDA endLineIndex :
               LET before == SubSeq(lines, 1, found.index + 1)
                   after == Slice(lines, endLineIndex + 1, Len(lines))
                   contentToInsert == IF StartsWith(mod.content, <<"\n">>)
                                        THEN mod.content ELSE <<"\n">> \o mod.content
               IN With(Join(before \o <<contentToInsert>> \o after), LAMBDA finalContent :
                    [newContent |-> CollapseNewlines(finalContent), errors |-> errs]))))

\* an append_to_section that puts the content at the end of the document
AppendToSectionAtEnd(content, errs, mod, actionNum) ==
  With(Split(content), LAMBDA lines :
    With(findHeaderLineIndex(lines, mod.header), LAMBDA found :
      IF found.index = -1
        THEN [newContent |-> content,
              errors |-> Append(errs, ErrorEntry(actionNum, mod.action, "failed", mod.header))]
        ELSE LET lastLineOfSection == lines[Len(lines)]
                 contentToInsert == IF Trim(lastLineOfSection) # <<>>
                                      THEN <<"\n">> \o mod.content ELSE mod.content
             IN With(Join(lines \o <<contentToInsert>>), LAMBDA finalContent :
                  [newContent |-> CollapseNewlines(finalContent), errors |-> errs])))

\* case 'append_to_section'
AppendToSection(content, errs, mod, actionNum) ==
  With(Split(content), LAMBDA lines :
    With(findHeaderLineIndex(lines, mod.header), LAMBDA found :
      IF found.index = -1
        THEN [newContent |-> content,
              errors |-> Append(errs, ErrorEntry(actionNum, mod.action, "failed", mod.header))]
        ELSE With(SectionEnd(lines, found.index + 1, found.level), LAMBDA insertionLineIndex :
               LET before == SubSeq(lines, 1, insertionLineIndex)
                   after == Slice(lines, insertionLineIndex + 1, Len(lines))
                   lastLineOfSection == before[Len(before)]
                   contentToInsert == IF Trim(lastLineOfSection) # <<>>
                                        THEN <<"\n">> \o mod.content ELSE mod.content
               IN With(Join(before \o <<contentToInsert>> \o after), LAMBDA finalContent :
                    [newContent |-> CollapseNewlines(finalContent), errors |-> errs]))))

\* case 'search_and_replace'
SearchAndReplace(content, errs, mod, actionNum) ==
  With(escapeRegExp(mod.find), LAMBDA safeSearchString :
    [newContent |->
       IF mod.all THEN ReplaceRegExp(content, RegExpText(safeSearchString), mod.replacement)
       ELSE ReplaceString(content, safeSearchString, mod.replacement),
     errors |->
       IF ~Includes(content, mod.find) /\ ~mod.all
         THEN Append(errs, ErrorEntry(actionNum, mod.action, "warning",
                                      Slice(mod.find, 1, Min(20, Len(mod.find)))))
         ELSE errs])

\* an unknown action that is reported in the error list
UnknownActionReported(content, errs, mod, actionNum) ==
  [newContent |-> content,
   errors |-> Append(errs, ErrorEntry(actionNum, mod.action, "failed", <<>>))]

\* switch (mod.action) has no default: a directive of no known action changes nothing
UnknownAction(content, errs, mod, actionNum) == [newContent |-> content, errors |-> errs]

\* a switch whose append and prepend join the two texts with no separator at all
ApplyModificationJoiningBare(content, errs, mod, actionNum) ==
  IF mod.action = "replace_all" THEN [newContent |-> mod.content, errors |-> errs]
  ELSE IF mod.action = "append" THEN [newContent |-> content \o mod.content, errors |-> errs]
  ELSE IF mod.action = "prepend" THEN [newContent |-> mod.content \o content, errors |-> errs]
  ELSE IF mod.action = "replace_section" THEN ReplaceSection(content, errs, mod, actionNum)
  ELSE IF mod.action = "append_to_section" THEN AppendToSection(content, errs, mod, actionNum)
  ELSE IF mod.action = "search_and_replace" THEN SearchAndReplace(content, errs, mod, actionNum)
  ELSE UnknownAction(content, errs, mod, actionNum)

\* one round of modifications.forEach: the switch on mod.action
ApplyModification(content, errs, mod, actionNum) ==
  IF mod.action = "replace_all" THEN [newContent |-> mod.content, errors |-> errs]
  ELSE IF mod.action = "append"
    THEN [newContent |-> content \o (IF EndsWith(content, <<"\n">>) THEN <<>> ELSE <<"\n">>)
                           \o mod.content,
          errors |-> errs]
  ELSE IF mod.action = "prepend"
    THEN [newContent |-> mod.content
                           \o (IF EndsWith(mod.content, <<"\n">>) THEN <<>> ELSE <<"\n">>)
                           \o content,
          errors |-> errs]
  ELSE IF mod.action = "replace_section" THEN ReplaceSection(content, errs, mod, actionNum)
  ELSE IF mod.action = "append_to_section" THEN AppendToSection(content, errs, mod, actionNum)
  ELSE IF mod.action = "search_and_replace" THEN SearchAndReplace(content, errs, mod, actionNum)
  ELSE UnknownAction(content, errs, mod, actionNum)

\* export const applyNotepadModifications: the rounds of forEach from directive k on
RECURSIVE ApplyFrom(_, _, _, _)
ApplyFrom(content, errs, mods, k) ==
  IF k > Len(mods) THEN [newContent |-> content, errors |-> errs]
  ELSE With(ApplyModification(content, errs, mods[k], k), LAMBDA r :
         ApplyFrom(r.newContent, r.errors, mods, k + 1))

applyNotepadModifications(content, mods) == ApplyFrom(content, <<>>, mods, 1)

\* ------------------------------------------------------------------------
\* applyNotepadModifications applied to bounded documents and batches
\* ------------------------------------------------------------------------

\* the longest batch of directives
MaxMods == 2

HeaderA == <<"#", "#", " ", "A">>

HeaderB == <<"#", "#", " ", "B">>

\* the lines under a header: none, one line, a nested header with a line under it,
\* lines around a run of blank lines, a line with several full stops, a line with a
\* backslash before a full stop
SectionBodies ==
  { <<>>,
    << <<"x">> >>,
    << <<"#", "#", "#", " ", "C">>, <<"w">> >>,
    << <<"y">>, <<>>, <<>>, <<"z">> >>,
    << <<"a", ".", "b", ".", "c">> >>,
    << <<"a", "\\", ".">> >> }

\* the documents: the empty one, one that ends with a line break, one that starts with
\* one, one with three blank lines in a row, and every pair of bodies under the headers
\* A and B
Documents ==
  {<<>>, <<"x", "\n">>, <<"\n", "x">>, <<"x", "\n", "\n", "\n", "\n", "y">>}
    \cup {Join(<<HeaderA>> \o a \o <<HeaderB>> \o b) : a \in SectionBodies, b \in SectionBodies}

\* a NotepadAction; the fields an action does not use are empty
Modification(action, content, header, find, replacement, all) ==
  [action |-> action, content |-> content, header |-> header, find |-> find,
   replacement |-> replacement, all |-> all]

\* the directives a batch is made of: the six kinds and an action that is not known
Modifications ==
  { Modification("replace_all", <<"n">>, <<>>, <<>>, <<>>, FALSE),
    Modification("append", <<"n">>, <<>>, <<>>, <<>>, FALSE),
    Modification("append", <<"\n", "n">>, <<>>, <<>>, <<>>, FALSE),
    Modification("prepend", <<"n", "\n">>, <<>>, <<>>, <<>>, FALSE),
    Modification("prepend", <<"n">>, <<>>, <<>>, <<>>, FALSE),
    Modification("replace_section", <<"c">>, <<"A">>, <<>>, <<>>, FALSE),
    Modification("replace_section", <<"\n", "c">>, <<"A">>, <<>>, <<>>, FALSE),
    Modification("replace_section", <<"c">>, <<"Q">>, <<>>, <<>>, FALSE),
    Modification("append_to_section", <<"c">>, <<"A">>, <<>>, <<>>, FALSE),
    Modification("append_to_section", <<"c">>, <<"B">>, <<>>, <<>>, FALSE),
    Modification("append_to_section", <<"c">>, <<"Q">>, <<>>, <<>>, FALSE),
    Modification("search_and_replace", <<>>, <<>>, <<".">>, <<"!">>, FALSE),
    Modification("search_and_replace", <<>>, <<>>, <<".">>, <<"!">>, TRUE),
    Modification("search_and_replace", <<>>, <<>>, <<"a", ".">>, <<"!">>, FALSE),
    Modification("search_and_replace", <<>>, <<>>, <<"x">>, <<"w">>, FALSE),
    Modification("search_and_replace", <<>>, <<>>, <<"q">>, <<"w">>, TRUE),
    Modification("delete_section", <<"c">>, <<"A">>, <<>>, <<>>, FALSE) }

NotepadInit ==
  /\ currentContent \in Documents
  /\ newContent = currentContent
  /\ modifications = <<>>
  /\ errors = <<>>
  /\ ExecIdle
  /\ ParserIdle
  /\ ResolverIdle
  /\ ThinkingIdle
  /\ JsonIdle
  /\ SseIdle

\* a round that keeps the old document behind the content of a replace_all
ForEachModificationKeepingOld(mod) ==
  /\ Len(modifications) < MaxMods
  /\ modifications' = Append(modifications, mod)
  /\ \E r \in {ApplyModification(newContent, errors, mod, Len(modifications) + 1)} :
       /\ newContent' = IF mod.action = "replace_all" THEN r.newContent \o newContent
                        ELSE r.newContent
       /\ errors' = r.errors
  /\ UNCHANGED <<currentContent, execVars, parserVars, resolverVars, thinkingVars,
                 jsonVars, sseVars>>

\* one round of modifications.forEach, for the next directive of the batch
ForEachModification(mod) ==
  /\ Len(modifications) < MaxMods
  /\ modifications' = Append(modifications, mod)
  /\ \E r \in {ApplyModification(newContent, errors, mod, Len(modifications) + 1)} :
       /\ newContent' = r.newContent
       /\ errors' = r.errors
  /\ UNCHANGED <<currentContent, execVars, parserVars, resolverVars, thinkingVars,
                 jsonVars, sseVars>>

NotepadNext == \E mod \in Modifications : ForEachModification(mod)

SpecNotepad == NotepadInit /\ [][NotepadNext]_vars

\* ------------------------------------------------------------------------
\* findHeaderLineIndex applied to bounded documents and targets
\* ------------------------------------------------------------------------

\* the most lines of a resolved document
MaxLines == 2

\* a line of 100 characters that holds the word summary
LongLine == <<"s", "u", "m", "m", "a", "r", "y">> \o [i \in 1..93 |-> "x"]

\* the lines a document is made of: a blank line, a rule, a marker header with a quoted
\* title, a bold line, a plain line with a full stop, a marker without a title, a
\* marker header with a hyphenated title, a long line, an indented short header
LinePool ==
  { <<>>,
    <<"-", "-", "-">>,
    <<"#", "#", " ", "\"", "s", "u", "m", "m", "a", "r", "y", "\"">>,
    <<"*", "*", "S", "u", "m", "m", "a", "r", "y", "*", "*">>,
    <<"s", "u", "m", "m", "a", "r", "y", ".">>,
    <<"#", "#">>,
    <<"#", "#", "#", " ", "S", "-", "u", "-", "m">>,
    LongLine,
    <<" ", "#", " ", "a", "b", ":">> }

\* the target headers: none, a marker only, the title with a colon, a short word, two
\* letters inside a word, a two-letter title, the title in smart quotes
TargetHeaders ==
  { <<>>,
    <<"#">>,
    <<"S", "u", "m", "m", "a", "r", "y", ":">>,
    <<"S", "u", "m">>,
    <<"u", "m">>,
    <<"A", "B">>,
    <<LeftDoubleQuote, "S", "u", "m", "m", "a", "r", "y", RightDoubleQuote>> }

ResolverInit ==
  /\ resolverLines \in UNION {[1..n -> LinePool] : n \in 0..MaxLines}
  /\ resolverTarget \in TargetHeaders
  /\ resolverResult = None
  /\ ExecIdle
  /\ ParserIdle
  /\ NotepadIdle
  /\ ThinkingIdle
  /\ JsonIdle
  /\ SseIdle

\* one call of findHeaderLineIndex
Resolve ==
  /\ resolverResult = None
  /\ \E found \in {findHeaderLineIndex(resolverLines, resolverTarget)} :
       resolverResult' = Some(found)
  /\ UNCHANGED <<resolverLines, resolverTarget, execVars, parserVars, notepadVars,
                 thinkingVars, jsonVars, sseVars>>

ResolverNext == Resolve

SpecResolver == ResolverInit /\ [][ResolverNext]_vars

\* ------------------------------------------------------------------------
\* findHeaderLineIndex applied to a header line and a target that are two
\* spellings of one title
\* ------------------------------------------------------------------------

\* s.toUpperCase()
ToUpperCase(s) ==
  [i \in 1..Len(s) |->
     IF \E k \in 1..Len(LowerCase) : LowerCase[k] = s[i]
       THEN UpperCase[CHOOSE k \in 1..Len(LowerCase) : LowerCase[k] = s[i]]
       ELSE s[i]]

\* the titles: one letter, and a word
Titles == {<<"Q">>, <<"S", "u", "m", "m", "a", "r", "y">>}

\* what may stand before a title: nothing, or a blank and a bold mark
Leads == {<<>>, <<" ", "*", "*">>}

\* what may stand after a title: nothing, one colon or full stop, a colon before a
\* bold mark; then a question mark, and a colon behind a bold mark
PlainTails == {<<>>, <<":">>, <<FullWidthColon>>, <<".">>, <<":", "*", "*">>}

Tails == PlainTails \cup {<<"?">>, <<"*", "*", ":">>}

\* the ways to spell a title, with the given tails
Spellings(tails) == [lead : Leads, smart : BOOLEAN, upper : BOOLEAN, tail : tails]

\* the title in the spelling sp, in quotes when quoted
Spelled(title, quoted, sp) ==
  sp.lead
    \o (IF ~quoted THEN <<>> ELSE IF sp.smart THEN <<LeftDoubleQuote>> ELSE <<"\"">>)
    \o (IF sp.upper THEN ToUpperCase(title) ELSE ToLowerCase(title))
    \o (IF ~quoted THEN <<>> ELSE IF sp.smart THEN <<RightDoubleQuote>> ELSE <<"\"">>)
    \o sp.tail

\* the marker counts of the header line
HeaderLevels == {1, 2}

\* a marker header of the given level
MarkerHeader(level, text) == [i \in 1..level |-> "#"] \o <<" ">> \o text

\* the spec's example: the target Summary: and the header line ## "summary"
ExampleTarget == <<"S", "u", "m", "m", "a", "r", "y", ":">>

ExampleLine == <<"#", "#", " ", "\"", "s", "u", "m", "m", "a", "r", "y", "\"">>

SpellingsInit ==
  /\ \/ \E title \in Titles, quoted \in BOOLEAN, level \in HeaderLevels,
          inLine \in Spellings(Tails), inTarget \in Spellings(Tails) :
          /\ resolverLines = <<MarkerHeader(level, Spelled(title, quoted, inLine))>>
          /\ resolverTarget = Spelled(title, quoted, inTarget)
     \/ /\ resolverLines = <<ExampleLine>>
        /\ resolverTarget = ExampleTarget
  /\ resolverResult = None
  /\ ExecIdle
  /\ ParserIdle
  /\ NotepadIdle
  /\ ThinkingIdle
  /\ JsonIdle
  /\ SseIdle

SpecSpellings == SpellingsInit /\ [][ResolverNext]_vars

\* ------------------------------------------------------------------------
\* robustJsonParse applied to JSON texts with and without defects
\* ------------------------------------------------------------------------

\* how deep the JSON texts are nested
MaxDepth == 2

\* the scalar texts: a number, null, a string that holds a comma and a closing brace
JsonAtoms == {<<"1">>, <<"null">>, <<"\",}\"">>}

\* what may stand before a closing brace or bracket: nothing, a trailing comma, a
\* trailing comma and a blank or a line break, two commas, a block comment
Trailers ==
  {[text |-> <<>>, defects |-> "none"],
   [text |-> <<",">>, defects |-> "commas"],
   [text |-> <<",", " ">>, defects |-> "commas"],
   [text |-> <<",", "\n">>, defects |-> "commas"],
   [text |-> <<",", ",">>, defects |-> "other"],
   [text |-> <<"/*", "c", "*/">>, defects |-> "other"]}

\* the defects of a text whose parts have the defects a and b
Both(a, b) ==
  IF "other" \in {a, b} THEN "other" ELSE IF "commas" \in {a, b} THEN "commas" ELSE "none"

\* the JSON texts nested d deep, each with the text it was before its defects were put in
RECURSIVE JsonTexts(_)
JsonTexts(d) ==
  IF d = 0 THEN {[text |-> a, plain |-> a, defects |-> "none"] : a \in JsonAtoms}
  ELSE With(JsonTexts(d - 1), LAMBDA inner :
         inner
           \cup {[text |-> <<"{", "\"a\"", ":">> \o v.text \o t.text \o <<"}">>,
                  plain |-> <<"{", "\"a\"", ":">> \o v.plain \o <<"}">>,
                  defects |-> Both(v.defects, t.defects)] : v \in inner, t \in Trailers}
           \cup {[text |-> <<"[", "1", ",">> \o v.text \o t.text \o <<"]">>,
                  plain |-> <<"[", "1", ",">> \o v.plain \o <<"]">>,
                  defects |-> Both(v.defects, t.defects)] : v \in inner, t \in Trailers})

JsonInit ==
  /\ \E j \in JsonTexts(MaxDepth) :
       /\ jsonStr = j.text
       /\ jsonPlain = j.plain
       /\ jsonDefects = j.defects
  /\ jsonResult = None
  /\ ExecIdle
  /\ ParserIdle
  /\ NotepadIdle
  /\ ResolverIdle
  /\ ThinkingIdle
  /\ SseIdle

\* one call of robustJsonParse
ParseJson ==
  /\ jsonResult = None
  /\ \E parsed \in {robustJsonParse(jsonStr)} : jsonResult' = Some(parsed)
  /\ UNCHANGED <<jsonStr, jsonPlain, jsonDefects, execVars, parserVars, notepadVars,
                 resolverVars, thinkingVars, sseVars>>

JsonNext == ParseJson

SpecJson == JsonInit /\ [][JsonNext]_vars

\* ------------------------------------------------------------------------
\* generateOpenAiResponse reading a stream of frames in chunks
\* ------------------------------------------------------------------------

\* the most frames a server sends before the sentinel
MaxFrames == 2

\* the lexemes of a stream: the prefix of a frame, the sentinel, the text before and
\* after the content of a frame that carries one, and a frame body that carries a
\* role and no content
DataPrefix == "data: "
DoneSentinel == "[DONE]"
ContentOpen == "{\"choices\":[{\"delta\":{\"content\":"
ContentClose == "}}]}"
RoleBody == "{\"choices\":[{\"delta\":{\"role\":\"assistant\"}}]}"

\* the string literals of the contents, and the string each one stands for
ContentLiterals == {"\"a\"", "\"b\"", "\"c\""}

StringValue(literal) ==
  CASE literal = "\"a\"" -> "a"
    [] literal = "\"b\"" -> "b"
    [] literal = "\"c\"" -> "c"

\* the frames of a stream
ContentFrame(literal) == [kind |-> "content", literal |-> literal]
RoleFrame == [kind |-> "role"]
DoneFrame == [kind |-> "done"]

\* the bytes of one frame: a data line and an empty line
FrameBytes(frame) ==
  <<DataPrefix>>
    \o (CASE frame.kind = "content" -> <<ContentOpen, frame.literal, ContentClose>>
          [] frame.kind = "role" -> <<RoleBody>>
          [] frame.kind = "done" -> <<DoneSentinel>>)
    \o <<"\n", "\n">>

\* the bytes of a stream of frames
StreamBytes(frames) == Joined([i \in 1..Len(frames) |-> FrameBytes(frames[i])], Len(frames))

\* the streams: frames with and without content, the sentinel, and then nothing or one
\* more frame
FramesBeforeDone ==
  UNION {[1..n -> {ContentFrame("\"a\""), ContentFrame("\"b\""), RoleFrame}] :
           n \in 0..MaxFrames}

FramesAfterDone == {<<>>, <<ContentFrame("\"c\"")>>}

\* const message = line.replace(/^data: /, '')
MessageOf(line) == IF line # <<>> /\ line[1] = DataPrefix THEN Tail(line) ELSE line

\* JSON.parse(message) and parsed.choices[0]?.delta?.content: the content of a whole
\* frame body that has one; a body without content has none, and what is no whole
\* body throws and is ignored
DeltaOf(message) ==
  IF /\ Len(message) = 3
     /\ message[1] = ContentOpen
     /\ message[2] \in ContentLiterals
     /\ message[3] = ContentClose
    THEN Some(StringValue(message[2]))
    ELSE Undefined

\* for (const line of lines), from line i on: the sentinel leaves the loop
RECURSIVE ForEachLine(_, _, _, _)
ForEachLine(lines, i, text, deltas) ==
  IF i > Len(lines) THEN [fullText |-> text, deltas |-> deltas]
  ELSE With(MessageOf(lines[i]), LAMBDA message :
         IF message = <<DoneSentinel>> THEN [fullText |-> text, deltas |-> deltas]
         ELSE With(DeltaOf(message), LAMBDA delta :
                IF delta # Undefined /\ delta.v # ""
                  THEN ForEachLine(lines, i + 1, Append(text, delta.v),
                                   Append(deltas, delta.v))
                  ELSE ForEachLine(lines, i + 1, text, deltas)))

\* const lines = chunk.split('\n').filter(line => line.trim() !== '')
ChunkLines(chunk) == SelectSeq(Split(chunk), LAMBDA line : Trim(line) # <<>>)

SseInit ==
  /\ \E before \in FramesBeforeDone, after \in FramesAfterDone :
       /\ sseFrames = before \o <<DoneFrame>> \o after
       /\ readerBytes = StreamBytes(before \o <<DoneFrame>> \o after)
  /\ openAiFullText = <<>>
  /\ onStreamDeltas = <<>>
  /\ openAiResult = None
  /\ ExecIdle
  /\ ParserIdle
  /\ NotepadIdle
  /\ ResolverIdle
  /\ ThinkingIdle
  /\ JsonIdle

\* one round of while (true): reader.read() delivers the next bytes, however many,
\* and the lines of the chunk are gone through
ReadChunk ==
  /\ openAiResult = None
  /\ readerBytes # <<>>
  /\ \E n \in 1..Len(readerBytes) :
       \E after \in {ForEachLine(ChunkLines(SubSeq(readerBytes, 1, n)), 1,
                                 openAiFullText, onStreamDeltas)} :
         /\ openAiFullText' = after.fullText
         /\ onStreamDeltas' = after.deltas
         /\ readerBytes' = SubSeq(readerBytes, n + 1, Len(readerBytes))
  /\ UNCHANGED <<sseFrames, openAiResult, execVars, parserVars, notepadVars,
                 resolverVars, thinkingVars, jsonVars>>

\* if (done) break; return { text: fullText, durationMs }
ReadDone ==
  /\ openAiResult = None
  /\ readerBytes = <<>>
  /\ openAiResult' = Some([text |-> openAiFullText])
  /\ UNCHANGED <<sseFrames, readerBytes, openAiFullText, onStreamDeltas, execVars,
                 parserVars, notepadVars, resolverVars, thinkingVars, jsonVars>>

SseNext ==
  \/ ReadChunk
  \/ ReadDone

SpecSse == SseInit /\ [][SseNext]_vars

\* ------------------------------------------------------------------------
\* The reasoning configuration executeStep hands to the transport
\* ------------------------------------------------------------------------

\* a derivation that sends the fixed budget for the auto sentinel whatever the model
getThinkingConfigWithoutLevels(modelDetails, budget, level) ==
  IF ~useOpenAiApiConfig /\ modelDetails.supportsThinkingConfig = Some(TRUE)
    THEN IF budget = 0 THEN Undefined
         ELSE IF budget = -1 THEN [thinkingBudget |-> 1024]
         ELSE [thinkingBudget |-> budget]
  ELSE Undefined

\* const getThinkingConfigForGeminiModel
getThinkingConfigForGeminiModel(modelDetails, budget, level) ==
  IF ~useOpenAiApiConfig /\ modelDetails.supportsThinkingConfig = Some(TRUE)
    THEN IF budget = 0 THEN Undefined
         ELSE IF budget = -1
           THEN IF modelDetails.apiName = GEMINI_3_PRO_MODEL_ID THEN [thinkingLevel |-> level]
                ELSE [thinkingBudget |-> 1024]
         ELSE [thinkingBudget |-> budget]
  ELSE Undefined

\* senderForStep === MessageSender.Cognito ? cognitoThinkingBudget : museThinkingBudget
specificThinkingBudget ==
  IF senderForStep = "Cognito" THEN cognitoThinkingBudget ELSE museThinkingBudget

\* senderForStep === MessageSender.Cognito ? cognitoThinkingLevel : museThinkingLevel
specificThinkingLevel ==
  IF senderForStep = "Cognito" THEN cognitoThinkingLevel ELSE museThinkingLevel

ThinkingInit ==
  /\ modelDetailsForStep \in ThinkingModels
  /\ senderForStep \in {"Cognito", "Muse"}
  /\ cognitoThinkingBudget \in ThinkingBudgets
  /\ cognitoThinkingLevel \in ThinkingLevels
  /\ museThinkingBudget \in ThinkingBudgets
  /\ museThinkingLevel \in ThinkingLevels
  /\ sentThinkingConfig = None
  /\ ExecInit
  /\ request = CHOOSE r \in Requests : TRUE
  /\ ParserIdle
  /\ NotepadIdle
  /\ ResolverIdle
  /\ JsonIdle
  /\ SseIdle

\* executeStep derives the configuration and calls the configured transport:
\* generateOpenAiResponse takes no reasoning configuration, generateGeminiResponse
\* takes thinkingConfig and sends it when it is defined
CallTransport ==
  /\ sentThinkingConfig = None
  /\ \E thinkingConfig \in {getThinkingConfigForGeminiModel(modelDetailsForStep,
                                  specificThinkingBudget, specificThinkingLevel)} :
       sentThinkingConfig' = Some(IF useOpenAiApiConfig THEN Undefined ELSE thinkingConfig)
  /\ UNCHANGED <<modelDetailsForStep, senderForStep, cognitoThinkingBudget,
                 cognitoThinkingLevel, museThinkingBudget, museThinkingLevel,
                 execVars, parserVars, notepadVars, resolverVars, jsonVars, sseVars>>

ThinkingNext == CallTransport

SpecThinking == ThinkingInit /\ [][ThinkingNext]_vars

\* ------------------------------------------------------------------------
\* Properties of executeStep
\* ------------------------------------------------------------------------

\* the system notices whose text starts with prefix
Notices(prefix) ==
  {i \in 1..Len(messages) :
     /\ messages[i].sender = "System"
     /\ messages[i].text # <<>>
     /\ messages[i].text[1] = prefix}

RetryNoticeCount == Cardinality(Notices("[retry] "))

FailureNoticeCount == Cardinality(Notices("failed: "))

\* executeStep has ended with the canonical Cancelled error
EndedCancelled == pc = "done" /\ thrown = Some(CancelledError) /\ returned = None

\* C1: whenever executeStep passes a check point (the top of the loop, or the return of
\* the transport call) with the cancel flag set, it ends there with the Cancelled error,
\* and neither that step nor any later one creates a message, calls the transport or
\* records a snapshot, whatever the attempt number.
C1_CancelAtCheckPoint ==
  [][/\ (cancelRequestRef /\ pc' # pc) =>
          /\ pc' = "done"
          /\ thrown' = Some(CancelledError)
          /\ returned' = None
          /\ messages' = messages
          /\ transportCalls' = transportCalls
          /\ failedStepInfo' = failedStepInfo
     /\ EndedCancelled =>
          /\ messages' = messages
          /\ transportCalls' = transportCalls
          /\ failedStepInfo' = failedStepInfo
          /\ EndedCancelled']_vars

\* the cancel flag was found set after the call of the last attempt
C1_Witness ==
  /\ EndedCancelled
  /\ cancelSeenAt = "afterCall"
  /\ autoRetryCount = MAX_AUTO_RETRIES
  /\ transportCalls = MAX_AUTO_RETRIES + 1

\* C2: when the cancel flag is raised while a transport call is in flight, on any
\* attempt, the failure sink is never called and executeStep ends Cancelled.
C2_CancelMidStream ==
  cancelledInFlight =>
    /\ failedStepInfo = None
    /\ snapshotCount = 0
    /\ pc = "done" => EndedCancelled

\* cancelled in the middle of the stream of the last attempt, the call then failing
C2_Witness ==
  /\ cancelledInFlight
  /\ pc = "done"
  /\ autoRetryCount = MAX_AUTO_RETRIES
  /\ streamedText # <<>>
  /\ transportFailures = MAX_AUTO_RETRIES + 1

\* C3: when the first k calls fail with a non-cancel error and the next one succeeds,
\* with no cancellation, executeStep returns the parsed response of that call after
\* exactly k retry notices and k + 1 calls, with no failure notice and no snapshot,
\* for every k from 0 to MAX_AUTO_RETRIES.
C3_RetryThenSuccess ==
  (pc = "done" /\ returned # None /\ abortReports = 0 /\ ~cancelRequestRef) =>
    /\ transportFailures \in 0..MAX_AUTO_RETRIES
    /\ RetryNoticeCount = transportFailures
    /\ transportCalls = transportFailures + 1
    /\ FailureNoticeCount = 0
    /\ failedStepInfo = None
    /\ snapshotCount = 0
    /\ thrown = None
    /\ returned = Some(parseAIResponse(fullText))

\* two failures, then a success whose reply carries a directive and the end signal
C3_Witness ==
  /\ pc = "done"
  /\ returned # None
  /\ abortReports = 0
  /\ transportFailures = 2
  /\ RetryNoticeCount = 2
  /\ returned.v.discussionShouldEnd
  /\ Len(returned.v.notepadUpdate.modifications) = 1

\* every attempt has failed with a non-cancel error and no cancel was requested
AllAttemptsFailed ==
  /\ pc = "done"
  /\ transportFailures = MAX_AUTO_RETRIES + 1
  /\ abortReports = 0
  /\ ~cancelRequestRef

\* what exhausting the retries does, the recorded prior discussion log aside
ExhaustionOutcome ==
  /\ transportCalls = MAX_AUTO_RETRIES + 1
  /\ RetryNoticeCount = MAX_AUTO_RETRIES
  /\ FailureNoticeCount = 1
  /\ snapshotCount = 1
  /\ failedStepInfo # None
  /\ failedStepInfo.v.stepIdentifier = request.stepIdentifier
  /\ failedStepInfo.v.prompt = request.prompt
  /\ failedStepInfo.v.modelName = request.modelDetailsForStep.apiName
  /\ failedStepInfo.v.sender = request.senderForStep
  /\ failedStepInfo.v.purpose = request.purposeForStep
  /\ failedStepInfo.v.imageApiPart = request.imageApiPartForStep
  /\ failedStepInfo.v.currentTurnIndexForResume = request.currentTurnIndexForResumeContext
  /\ failedStepInfo.v.previousAISignaledStopForResume
       = request.previousAISignaledStopForResumeContext
  /\ ~isInternalDiscussionActive
  /\ thrown # None
  /\ thrown # Some(CancelledError)
  /\ returned = None

\* C4 as stated: after MAX_AUTO_RETRIES + 1 failed attempts the snapshot holds every
\* value passed to executeStep unchanged, the prior discussion log included.
C4_SnapshotUnchanged ==
  AllAttemptsFailed =>
    /\ ExhaustionOutcome
    /\ Some(failedStepInfo.v.discussionLogBeforeFailure)
         = request.discussionLogBeforeFailureContext

\* C4 as amended: the same, with the prior discussion log recorded as the empty list
\* when none was passed; and no snapshot exists before the last attempt has failed.
C4_SnapshotOnExhaustion ==
  /\ AllAttemptsFailed =>
       /\ ExhaustionOutcome
       /\ failedStepInfo.v.discussionLogBeforeFailure
            = IF request.discussionLogBeforeFailureContext.t = "some"
                THEN request.discussionLogBeforeFailureContext.v
                ELSE <<>>
  /\ (failedStepInfo # None \/ snapshotCount > 0) =>
       /\ pc = "done"
       /\ transportCalls = MAX_AUTO_RETRIES + 1

\* the retries are exhausted for a call that passed a prior discussion log
C4_Witness ==
  /\ AllAttemptsFailed
  /\ failedStepInfo # None
  /\ request.discussionLogBeforeFailureContext = Some(<<"turn one">>)
  /\ failedStepInfo.v.discussionLogBeforeFailure = <<"turn one">>

\* the empty message an attempt starts with
IsPlaceholder(m) ==
  /\ m.text = <<>>
  /\ m.thoughts = <<>>
  /\ m.sender = request.senderForStep
  /\ m.purpose = request.purposeForStep

\* a retry notice
IsRetryNotice(m) == m.sender = "System" /\ m.text # <<>> /\ m.text[1] = "[retry] "

\* C16: every transport call, of the first attempt and of each retry, is issued with a
\* new empty placeholder message whose id no earlier message has; a message is only
\* ever written while a call is in flight, and then it is the message of the running
\* attempt; a failed attempt that is retried adds one retry notice, which is the only
\* message between the placeholder of the failed attempt and that of the next one.
C16_FreshPlaceholderPerAttempt ==
  [][/\ Len(messages') >= Len(messages)
     /\ transportCalls' # transportCalls =>
          /\ transportCalls' = transportCalls + 1
          /\ Len(messages') = Len(messages) + 1
          /\ IsPlaceholder(messages'[Len(messages')])
          /\ msgId' = messages'[Len(messages')].id
          /\ \A i \in 1..Len(messages) : messages[i].id # msgId'
          /\ transportCalls > 0 =>
               /\ Len(messages) >= 2
               /\ IsRetryNotice(messages[Len(messages)])
               /\ messages[Len(messages) - 1].id = msgId
     /\ \A i \in 1..Len(messages) :
          messages'[i] # messages[i] => pc = "inflight" /\ messages[i].id = msgId
     /\ (pc = "inflight" /\ pc' = "sleeping") =>
          /\ Len(messages') = Len(messages) + 1
          /\ IsRetryNotice(messages'[Len(messages')])]_vars

\* C16 witness: the first attempt streamed a text and failed, a retry notice followed,
\* and the second attempt streams into its own message
C16_Witness ==
  /\ pc = "inflight"
  /\ transportCalls = 2
  /\ Len(messages) = 3
  /\ messages[1].text # <<>>
  /\ IsRetryNotice(messages[2])
  /\ msgId = 3
  /\ messages[3].text # <<>>
  /\ messages[3].text # messages[1].text

\* the message of the running attempt
AttemptMessage == messages[CHOOSE i \in 1..Len(messages) : messages[i].id = msgId]

\* C17: while a call is in flight the message of the attempt is updated exactly when a
\* delta is received, once, and to the text and thoughts received so far in that
\* attempt: the text of the update is the text of the previous update of the attempt
\* (the empty placeholder before the first delta) followed by the text of the delta,
\* so the text only grows until the attempt ends.
C17_OneCumulativeUpdatePerDelta ==
  [][(pc = "inflight" /\ pc' = "inflight") =>
       /\ AttemptMessage.text = streamedText
       /\ AttemptMessage.thoughts = streamedThoughts
       /\ (messages' # messages) <=> (deltaCount' = deltaCount + 1)
       /\ deltaCount' # deltaCount =>
            /\ \E chunk \in Deltas :
                 /\ AttemptMessage'.text = AttemptMessage.text \o chunk.text
                 /\ AttemptMessage'.thoughts
                      = AttemptMessage.thoughts
                          \o (IF useOpenAiApiConfig THEN <<>> ELSE chunk.thoughts)
            /\ AttemptMessage'.text = streamedText'
            /\ AttemptMessage'.thoughts = streamedThoughts'
            /\ messages' = UpdatedMessages(messages, msgId, streamedText',
                                           streamedThoughts', "keep")
       /\ Len(AttemptMessage'.text) >= Len(AttemptMessage.text)
       /\ SubSeq(AttemptMessage'.text, 1, Len(AttemptMessage.text)) = AttemptMessage.text]_vars

\* C17 witness: the second delta of the first attempt has been received, and the message
\* shows the prose of the first delta followed by the block of the second
C17_Witness ==
  /\ pc = "inflight"
  /\ transportCalls = 1
  /\ deltaCount = 2
  /\ streamedText = <<"Hello", "\n">> \o DirectiveBlock
  /\ messages[1].text = streamedText
  /\ messages[1].thoughts = streamedThoughts

\* C30: when the transport call of an attempt returns successfully, the text of the
\* last streaming update of the attempt is the text the stream handler holds, which is
\* the fullText the transport returns; that text is passed to the parser, and the
\* final update sets the text of the message to the spokenText of the parser; once
\* executeStep has returned, the messages stay as they are.
C30_FinalizingUpdate ==
  [][/\ (pc = "inflight" /\ pc' = "done" /\ returned' # None) =>
          /\ AttemptMessage.text = streamedText
          /\ streamedText = fullText
          /\ returned' = Some(parseAIResponse(fullText))
          /\ messages' = UpdatedMessages(messages, msgId, returned'.v.spokenText,
                                         fullThoughts, "elapsed")
          /\ AttemptMessage'.text = returned'.v.spokenText
     /\ (pc = "done" /\ returned # None) => messages' = messages]_vars

\* C30 witness: two deltas were streamed, prose and a directive block; the call
\* returned, and the message shows the spoken text, which is not the streamed text
C30_Witness ==
  /\ pc = "done"
  /\ returned # None
  /\ deltaCount = 2
  /\ streamedText = <<"Hello", "\n">> \o DirectiveBlock
  /\ fullText = streamedText
  /\ returned.v = parseAIResponse(fullText)
  /\ AttemptMessage.text = returned.v.spokenText
  /\ AttemptMessage.text # streamedText

\* C24: when a transport call returns the error tag AbortError, executeStep ends there
\* with the Cancelled error, whether the cancel flag is set or not: that step adds no
\* notice and records no snapshot, and no message, call or snapshot follows it.
C24_AbortNeverRetried ==
  [][/\ abortReports' # abortReports =>
          /\ pc' = "done"
          /\ thrown' = Some(CancelledError)
          /\ returned' = None
          /\ messages' = messages
          /\ failedStepInfo' = failedStepInfo
          /\ snapshotCount' = snapshotCount
     /\ abortReports > 0 =>
          /\ messages' = messages
          /\ transportCalls' = transportCalls
          /\ failedStepInfo' = failedStepInfo]_vars

\* ------------------------------------------------------------------------
\* Properties of parseAIResponse
\* ------------------------------------------------------------------------

\* the reply was parsed
Parsed == parsedAIResponse # None

\* the positions of the fences of the reply
Fences == {i \in 1..Len(responseText) : responseText[i] = FENCE}

\* the reply holds one of the two known field names
HoldsKnownKey == \E i \in 1..Len(responseText) : responseText[i] \in {KeyMods, KeyDone}

\* the candidate of the reply was selected and parsed into an object or an array
CandidateParsed ==
  With(SelectCandidate(responseText), LAMBDA c :
    c.jsonCandidate # <<>> /\ robustJsonParse(c.jsonCandidate).t \in {"obj", "arr"})

\* the reply without the occurrence that was selected as the candidate, trimmed
WithoutSelectedOccurrence ==
  With(SelectCandidate(responseText), LAMBDA c :
    Trim(Slice(responseText, 1, c.start - 1)
           \o Slice(responseText, c.start + Len(c.textToRemove), Len(responseText))))

\* C8: when the candidate parses, the visible reply is the raw reply without the very
\* occurrence that was selected (the last fenced block or the heuristic substring),
\* also when an identical copy occurs earlier and text follows the candidate; the text
\* before the selected occurrence, earlier copies included, is kept.  (A reply that is
\* left empty gets a status text and is not compared.)
C8_RemovesSelectedOccurrence ==
  (Parsed /\ CandidateParsed /\ WithoutSelectedOccurrence # <<>>)
    => parsedAIResponse.v.spokenText = WithoutSelectedOccurrence

\* the last fenced block of the reply, as a reply of its own
LastBlockAlone ==
  With(jsonBlockMatches(responseText, 1), LAMBDA matches :
    Slice(responseText, matches[Len(matches)].start, matches[Len(matches)].end))

\* the body of the last fenced block, parsed
LastBlockParsed ==
  With(jsonBlockMatches(responseText, 1), LAMBDA matches :
    robustJsonParse(matches[Len(matches)].body))

\* C9: when the reply holds fenced blocks, the directives and the end signal are those
\* of the last fenced block alone, never of an earlier block or of the key heuristic:
\* the directives are its notepad_modifications field when that is an array and empty
\* otherwise, the end signal is its discussion_complete field when that is a boolean
\* and false otherwise; Hello followed by a block with one append directive and
\* discussion_complete true gives Hello, that directive and an end signal.
C9_LastBlockOnly ==
  (Parsed /\ Cardinality(Fences) >= 2) =>
    /\ parsedAIResponse.v.notepadUpdate.modifications
         = parseAIResponse(LastBlockAlone).notepadUpdate.modifications
    /\ parsedAIResponse.v.discussionShouldEnd
         = parseAIResponse(LastBlockAlone).discussionShouldEnd
    /\ parsedAIResponse.v.notepadUpdate.modifications
         = (IF LastBlockParsed.t = "obj" /\ Member(LastBlockParsed, KeyMods).t = "arr"
              THEN Member(LastBlockParsed, KeyMods).x ELSE <<>>)
    /\ parsedAIResponse.v.discussionShouldEnd
         = (LastBlockParsed.t = "obj" /\ Member(LastBlockParsed, KeyDone) = JsLit("true"))
    /\ (responseText = <<"Hello", "\n">> \o DirectiveBlock) =>
         /\ parsedAIResponse.v.spokenText = <<"Hello">>
         /\ Len(parsedAIResponse.v.notepadUpdate.modifications) = 1
         /\ parsedAIResponse.v.discussionShouldEnd

\* C9 witness: a reply whose first block carries a directive and ends the discussion
\* and whose last block does neither was parsed into no directive and no end signal
C9_Witness ==
  /\ Parsed
  /\ responseText = DirectiveBlock \o <<"Hello">> \o QuietBlock
  /\ parsedAIResponse.v.notepadUpdate.isNull
  /\ ~parsedAIResponse.v.discussionShouldEnd
  /\ parsedAIResponse.v.spokenText = DirectiveBlock \o <<"Hello">>

\* C10: a reply with no fenced block and neither known field name, the empty and the
\* blank reply included, comes back as it is (not trimmed), with no directives
\* (notepadUpdate is null), no end signal and no parse error
C10_PlainReplyUntouched ==
  (Parsed /\ Cardinality(Fences) < 2 /\ ~HoldsKnownKey) =>
    /\ parsedAIResponse.v.spokenText = responseText
    /\ parsedAIResponse.v.notepadUpdate.isNull
    /\ parsedAIResponse.v.notepadUpdate.error = NoParsingError
    /\ ~parsedAIResponse.v.discussionShouldEnd

\* C10 witness: a reply of line breaks only was parsed and came back untrimmed
C10_Witness ==
  /\ Parsed
  /\ responseText = <<"\n", "\n">>
  /\ parsedAIResponse.v.spokenText = <<"\n", "\n">>
  /\ parsedAIResponse.v.notepadUpdate.isNull

\* a candidate was selected and was not parsed into an object (or an array, which is
\* an object to typeof) by any of the three repairs
CandidateFailed ==
  With(SelectCandidate(responseText), LAMBDA c :
    c.source # "none" /\ robustJsonParse(c.jsonCandidate).t \notin {"obj", "arr"})

\* C11: a parse error is recorded exactly when a fenced block was the source of the
\* candidate and the candidate is not parsed into an object after all three repairs;
\* a failed candidate of the key heuristic records no error; in both failure cases
\* the reply is left unstripped, the directives are empty and the end signal is false.
C11_ErrorExactlyOnFencedFailure ==
  Parsed =>
    /\ (parsedAIResponse.v.notepadUpdate.error # NoParsingError)
         <=> (SelectCandidate(responseText).source = "fence" /\ CandidateFailed)
    /\ CandidateFailed =>
         /\ parsedAIResponse.v.spokenText = responseText
         /\ parsedAIResponse.v.notepadUpdate.modifications = <<>>
         /\ ~parsedAIResponse.v.discussionShouldEnd

\* the visible reply: the reply once the candidate, if it was parsed, has been removed
VisibleReply ==
  With(SelectCandidate(responseText), LAMBDA c :
    IF CandidateParsed /\ c.textToRemove # <<>>
      THEN RemoveCandidate(responseText, c.textToRemove)
      ELSE responseText)

\* the status text for n directives and the end signal, the one for n directives, and
\* the one for the end signal
EditAndEndPhrase(n) ==
  <<"(AI ", "modified notepad (", ToString(n), " ops)", " and ",
    "suggests ending the discussion", ")">>

EditPhrase(n) == <<"(AI ", "modified notepad (", ToString(n), " ops)", ")">>

EndPhrase == <<"(AI ", "suggests ending the discussion", ")">>

\* C20: when the visible reply is empty or blank, spokenText is the combined phrase if
\* directives were found and the end signal is true, the edit phrase if only directives
\* were found, the end phrase if only the end signal is true, and the blank reply as it
\* is if neither was found; a visible reply that is not blank is returned as it is.
C20_PlaceholderPriority ==
  Parsed =>
    With(Len(parsedAIResponse.v.notepadUpdate.modifications), LAMBDA n :
      parsedAIResponse.v.spokenText =
        IF Trim(VisibleReply) # <<>> THEN VisibleReply
        ELSE IF n > 0 /\ parsedAIResponse.v.discussionShouldEnd THEN EditAndEndPhrase(n)
        ELSE IF n > 0 THEN EditPhrase(n)
        ELSE IF parsedAIResponse.v.discussionShouldEnd THEN EndPhrase
        ELSE VisibleReply)

\* C20 witness: the reply was a block with a directive and no end signal between line
\* breaks, nothing visible was left, and the edit phrase was put in its place
C20_Witness ==
  /\ Parsed
  /\ responseText = <<"\n">> \o EditBlock \o <<"\n">>
  /\ Trim(VisibleReply) = <<>>
  /\ parsedAIResponse.v.spokenText = EditPhrase(1)
  /\ ~parsedAIResponse.v.discussionShouldEnd

\* ------------------------------------------------------------------------
\* Properties of applyNotepadModifications
\* ------------------------------------------------------------------------

\* C5: the directives are applied strictly in array order, each to the document the
\* previous one produced (the document and the error list after a round are those of
\* the batch up to that round, whatever failed before); a directive that records an
\* error (header not found, search text not found) leaves the document exactly as the
\* earlier directives produced it.
C5_InOrderNoRollback ==
  [][ (Len(modifications') = Len(modifications) + 1) =>
        /\ SubSeq(modifications', 1, Len(modifications)) = modifications
        /\ newContent' = applyNotepadModifications(currentContent, modifications').newContent
        /\ errors' = applyNotepadModifications(currentContent, modifications').errors
        /\ (Len(errors') > Len(errors)) => newContent' = newContent ]_vars

\* the document has a line ## A and, later, a line ## B
HasAThenB(doc) ==
  With(Split(doc), LAMBDA lines :
    \E i, j \in 1..Len(lines) : i < j /\ lines[i] = HeaderA /\ lines[j] = HeaderB)

\* the first line ## B after a line ## A, with all text under it to the end of the document
SectionBOf(doc) ==
  With(Split(doc), LAMBDA lines :
    With({j \in 1..Len(lines) : lines[j] = HeaderB /\ \E i \in 1..(j - 1) : lines[i] = HeaderA},
         LAMBDA hits :
      Slice(lines, CHOOSE j \in hits : \A k \in hits : j <= k, Len(lines))))

\* C6: for a document with a header line ## A followed later by a header line ## B,
\* ReplaceSection(A, content) leaves the line ## B and all text under it, to the end
\* of the document, character for character unchanged, runs of blank lines included.
C6_SectionBUntouched ==
  ( /\ Len(modifications) = 1
    /\ modifications[1].action = "replace_section"
    /\ modifications[1].header = <<"A">>
    /\ HasAThenB(currentContent) )
    => EndsWith(newContent, <<"\n">> \o Join(SectionBOf(currentContent)))

\* every occurrence of find in s replaced by r, left to right
RECURSIVE EveryOccurrenceReplaced(_, _, _)
EveryOccurrenceReplaced(s, find, r) ==
  With(IF find = <<>> THEN 0 ELSE IndexOf(s, find), LAMBDA i :
    IF i = 0 THEN s
    ELSE With(Slice(s, i + Len(find), Len(s)), LAMBDA rest :
           Slice(s, 1, i - 1) \o r \o EveryOccurrenceReplaced(rest, find, r)))

\* C7: SearchReplace matches the find text literally, also when it holds characters
\* that are special in a regular expression: when the document holds the find text,
\* all = false replaces exactly the first occurrence and leaves every other one, and
\* all = true replaces every occurrence.
C7_LiteralSearchReplace ==
  ( /\ Len(modifications) = 1
    /\ modifications[1].action = "search_and_replace"
    /\ Includes(currentContent, modifications[1].find) )
    => newContent =
         IF modifications[1].all
           THEN EveryOccurrenceReplaced(currentContent, modifications[1].find,
                                        modifications[1].replacement)
           ELSE ReplaceFirst(currentContent, modifications[1].find,
                             modifications[1].replacement)

\* C12: when the header of a ReplaceSection or AppendToSection directive is not found,
\* exactly one error naming the position of the directive in the batch (from 1) and
\* its header is appended to the error list, and the document stays exactly as it was
\* before the directive, blank lines included.
C12_HeaderNotFound ==
  [][ \A mod \in Modifications :
        ( /\ modifications' = Append(modifications, mod)
          /\ mod.action \in {"replace_section", "append_to_section"}
          /\ findHeaderLineIndex(Split(newContent), mod.header).index = -1 )
        => /\ newContent' = newContent
           /\ errors' = Append(errors, ErrorEntry(Len(modifications) + 1, mod.action,
                                                  "failed", mod.header)) ]_vars

\* C12 witness: the second directive of a batch named a header the document does not
\* have; its error is the only one and a run of blank lines is still in the document
C12_Witness ==
  /\ Len(modifications) = 2
  /\ modifications[2].action = "append_to_section"
  /\ modifications[2].header = <<"Q">>
  /\ errors = <<ErrorEntry(2, "append_to_section", "failed", <<"Q">>)>>
  /\ Includes(newContent, <<"\n", "\n", "\n">>)

\* the document has three or more empty lines in a row
HasThreeBlankLines(doc) ==
  With(Split(doc), LAMBDA lines :
    \E i \in 1..(Len(lines) - 2) : lines[i] = <<>> /\ lines[i + 1] = <<>> /\ lines[i + 2] = <<>>)

\* C13: whatever the input document and the batch of directives, the document that
\* applyNotepadModifications returns has no run of three or more blank lines.
C13_NoThreeBlankLines ==
  Len(modifications) >= 1 => ~HasThreeBlankLines(newContent)

\* a line break stands on either side of the point where left and right are joined
NewlineAtJoin(left, right) == EndsWith(left, <<"\n">>) \/ StartsWith(right, <<"\n">>)

\* left and right joined as the claim reads: no separator when either side has the break
JoinedAtEitherSide(left, right) ==
  left \o (IF NewlineAtJoin(left, right) THEN <<>> ELSE <<"\n">>) \o right

\* left and right joined with a line break unless left ends with one
JoinedAfterLeft(left, right) ==
  left \o (IF EndsWith(left, <<"\n">>) THEN <<>> ELSE <<"\n">>) \o right

\* C18 as stated: Append yields document + separator + content, Prepend yields
\* content + separator + document, and the separator is one line break when neither
\* text has a line break at the join point, and empty otherwise.
C18_SeparatorUnlessNewlineAtJoin ==
  [][ \A mod \in Modifications :
        (modifications' = Append(modifications, mod)) =>
          /\ mod.action = "append" =>
               newContent' = JoinedAtEitherSide(newContent, mod.content) /\ errors' = errors
          /\ mod.action = "prepend" =>
               newContent' = JoinedAtEitherSide(mod.content, newContent) /\ errors' = errors
    ]_vars

\* C18 as amended: the separator is one line break unless the text on the left of the
\* join (the document for Append, the content for Prepend) ends with a line break;
\* the start of the text on the right is not looked at, and the empty document is
\* joined like any other.
C18_SeparatorUnlessLeftEndsWithNewline ==
  [][ \A mod \in Modifications :
        (modifications' = Append(modifications, mod)) =>
          /\ mod.action = "append" =>
               newContent' = JoinedAfterLeft(newContent, mod.content) /\ errors' = errors
          /\ mod.action = "prepend" =>
               newContent' = JoinedAfterLeft(mod.content, newContent) /\ errors' = errors
    ]_vars

\* C18 witness: a content that begins with a line break was appended to the empty
\* document and then a content without line break was prepended: each join got a break
C18_Witness ==
  /\ currentContent = <<>>
  /\ Len(modifications) = 2
  /\ modifications[1].action = "append"
  /\ modifications[1].content = <<"\n", "n">>
  /\ modifications[2].action = "prepend"
  /\ modifications[2].content = <<"n">>
  /\ newContent = <<"n", "\n", "\n", "\n", "n">>
  /\ errors = <<>>

\* C19: a replace_all round makes the document exactly the content of the directive,
\* whatever the document was, and records no error; so the round of a second
\* replace_all with the same content leaves the document as the first one made it.
C19_ReplaceAllIdempotent ==
  [][ \A mod \in Modifications :
        (modifications' = Append(modifications, mod) /\ mod.action = "replace_all") =>
          /\ newContent' = mod.content
          /\ errors' = errors
          /\ ( /\ modifications # <<>>
               /\ modifications[Len(modifications)] = mod ) => newContent' = newContent
    ]_vars

\* C19 witness: replace_all was applied twice with the same content to a document with
\* headers, and the document is that content
C19_Witness ==
  /\ Len(modifications) = 2
  /\ modifications[1].action = "replace_all"
  /\ modifications[2] = modifications[1]
  /\ HasAThenB(currentContent)
  /\ newContent = modifications[1].content
  /\ newContent = applyNotepadModifications(currentContent, <<modifications[1]>>).newContent
  /\ errors = <<>>

\* C21: a search_and_replace round adds one warning to the error list exactly when all
\* is false and the document does not hold the find text, and none otherwise; when the
\* document does not hold the find text the round leaves the document as it is,
\* whatever all is.
C21_WarningOnlyForFirstOccurrence ==
  [][ \A mod \in Modifications :
        (modifications' = Append(modifications, mod) /\ mod.action = "search_and_replace") =>
          /\ errors' = IF ~mod.all /\ ~Includes(newContent, mod.find)
                         THEN Append(errors,
                                     ErrorEntry(Len(modifications) + 1, mod.action, "warning",
                                                mod.find))
                         ELSE errors
          /\ ~Includes(newContent, mod.find) => newContent' = newContent
    ]_vars

\* the line (counted from 1) is a marker header of a level up to L
IsHeaderUpTo(lines, i, L) ==
  With(Trim(lines[i]), LAMBDA line :
    With(LeadingRun(line, {"#"}), LAMBDA hashes :
      hashes \in 1..L /\ hashes < Len(line) /\ IsSpace(line[hashes + 1])))

\* the end boundary of the section whose header is line h (counted from 1) with level
\* L: the first later marker header of a level up to L, or the line after the last one
EndBoundary(lines, h, L) ==
  With({i \in (h + 1)..Len(lines) : IsHeaderUpTo(lines, i, L)}, LAMBDA ends :
    IF ends = {} THEN Len(lines) + 1 ELSE CHOOSE i \in ends : \A j \in ends : i <= j)

\* the document with the section under line h replaced by the one line body
WithSectionBody(lines, h, L, body) ==
  CollapseNewlines(Join(SubSeq(lines, 1, h) \o <<body>>
                          \o SubSeq(lines, EndBoundary(lines, h, L), Len(lines))))

\* C25 as stated: a replace_section round whose header resolves to line h with level L
\* yields the lines up to h, the new content, and the lines from the end boundary on,
\* with runs of blank lines collapsed, and records no error.
C25_SectionBodyReplaced ==
  [][ \A mod \in Modifications :
        (modifications' = Append(modifications, mod) /\ mod.action = "replace_section") =>
          With(Split(newContent), LAMBDA lines :
            With(findHeaderLineIndex(lines, mod.header), LAMBDA found :
              found.index # -1 =>
                /\ newContent' = WithSectionBody(lines, found.index + 1, found.level,
                                                 mod.content)
                /\ errors' = errors))
    ]_vars

\* C25 as amended: the same, with one line break put before the new content unless the
\* content begins with a line break, so that a blank line stands between the header
\* line and a content that does not begin with one.
C25_SectionBodyReplacedAfterBlankLine ==
  [][ \A mod \in Modifications :
        (modifications' = Append(modifications, mod) /\ mod.action = "replace_section") =>
          With(Split(newContent), LAMBDA lines :
            With(findHeaderLineIndex(lines, mod.header), LAMBDA found :
              found.index # -1 =>
                /\ newContent' =
                     WithSectionBody(lines, found.index + 1, found.level,
                                     IF StartsWith(mod.content, <<"\n">>)
                                       THEN mod.content ELSE <<"\n">> \o mod.content)
                /\ errors' = errors))
    ]_vars

\* C25 witness: section A held a nested header and a line, section B one line; the
\* body of A, nested header included, was replaced and section B follows it
C25_Witness ==
  /\ currentContent = Join(<<HeaderA, <<"#", "#", "#", " ", "C">>, <<"w">>, HeaderB, <<"x">> >>)
  /\ Len(modifications) = 1
  /\ modifications[1].action = "replace_section"
  /\ modifications[1].content = <<"c">>
  /\ newContent = Join(<<HeaderA, <<>>, <<"c">>, HeaderB, <<"x">> >>)
  /\ errors = <<>>

\* the lines with the content put in just before the end boundary of the section whose
\* header is line h with level L, after a line break when the line before is not blank
WithContentBeforeBoundary(lines, h, L, content) ==
  LET e == EndBoundary(lines, h, L)
  IN Join(SubSeq(lines, 1, e - 1)
            \o <<(IF Trim(lines[e - 1]) # <<>> THEN <<"\n">> ELSE <<>>) \o content>>
            \o SubSeq(lines, e, Len(lines)))

\* C26 as stated: an append_to_section round whose header resolves to line h with level
\* L keeps the lines before the end boundary, puts the content just before the end
\* boundary (after a line break only when the line before it is not blank) and lets
\* the lines from the end boundary on follow; it records no error.
C26_ContentBeforeBoundary ==
  [][ \A mod \in Modifications :
        (modifications' = Append(modifications, mod) /\ mod.action = "append_to_section") =>
          With(Split(newContent), LAMBDA lines :
            With(findHeaderLineIndex(lines, mod.header), LAMBDA found :
              found.index # -1 =>
                /\ newContent' = WithContentBeforeBoundary(lines, found.index + 1, found.level,
                                                           mod.content)
                /\ errors' = errors))
    ]_vars

\* C26 as amended: the same, and afterwards every run of three or more line breaks of
\* the whole document is collapsed to two, in the kept lines as well.
C26_ContentBeforeBoundaryThenCollapsed ==
  [][ \A mod \in Modifications :
        (modifications' = Append(modifications, mod) /\ mod.action = "append_to_section") =>
          With(Split(newContent), LAMBDA lines :
            With(findHeaderLineIndex(lines, mod.header), LAMBDA found :
              found.index # -1 =>
                /\ newContent' =
                     CollapseNewlines(WithContentBeforeBoundary(lines, found.index + 1,
                                                                found.level, mod.content))
                /\ errors' = errors))
    ]_vars

\* C26 witness: section A held a nested header and a line, and the content was put
\* after a blank line behind that line, before the header of section B
C26_Witness ==
  /\ currentContent = Join(<<HeaderA, <<"#", "#", "#", " ", "C">>, <<"w">>, HeaderB, <<"x">> >>)
  /\ Len(modifications) = 1
  /\ modifications[1].action = "append_to_section"
  /\ modifications[1].header = <<"A">>
  /\ newContent = Join(<<HeaderA, <<"#", "#", "#", " ", "C">>, <<"w">>, <<>>, <<"c">>,
                         HeaderB, <<"x">> >>)
  /\ errors = <<>>

\* the six known kinds of directive
KnownActions ==
  {"replace_all", "append", "prepend", "replace_section", "append_to_section",
   "search_and_replace"}

\* an error entry without the position of its directive in the batch
Unnumbered(errs) ==
  [i \in 1..Len(errs) |->
     [action |-> errs[i].action, kind |-> errs[i].kind, subject |-> errs[i].subject]]

\* C29: a directive of none of the six known kinds is skipped: the document and the
\* error entries are those of the batch without such directives, and no error entry
\* belongs to such a directive.
C29_UnknownActionSkipped ==
  (\E k \in 1..Len(modifications) : modifications[k].action \notin KnownActions) =>
    With(applyNotepadModifications(currentContent,
                                   SelectSeq(modifications,
                                             LAMBDA mod : mod.action \in KnownActions)),
         LAMBDA known :
           /\ newContent = known.newContent
           /\ Unnumbered(errors) = Unnumbered(known.errors)
           /\ \A i \in 1..Len(errors) :
                modifications[errors[i].actionNum].action \in KnownActions)

\* C29 witness: a directive of an unknown kind stood before an append, and the append
\* was applied to the unchanged document
C29_Witness ==
  /\ currentContent = <<"\n", "x">>
  /\ Len(modifications) = 2
  /\ modifications[1].action = "delete_section"
  /\ modifications[2].action = "append"
  /\ modifications[2].content = <<"n">>
  /\ newContent = <<"\n", "x", "\n", "n">>
  /\ errors = <<>>

\* ------------------------------------------------------------------------
\* Properties of findHeaderLineIndex
\* ------------------------------------------------------------------------

\* the lines were resolved
Resolved == resolverResult # None

\* line i of the resolved document, trimmed (i counts from 1)
TrimmedLine(i) == Trim(resolverLines[i])

\* line i is a bold line: it opens and closes with two asterisks or two underscores
IsBoldLine(i) ==
  With(TrimmedLine(i), LAMBDA line :
    /\ Len(line) >= 4
    /\ SubSeq(line, 1, 2) \in {<<"*", "*">>, <<"_", "_">>}
    /\ SubSeq(line, Len(line) - 1, Len(line)) \in {<<"*", "*">>, <<"_", "_">>})

\* the markers that open line i
MarkerCount(i) == LeadingRun(TrimmedLine(i), {"#"})

\* the level line i is given: its marker count, 4 for a bold line, 3 for another line
LevelOfLine(i) ==
  IF MarkerCount(i) > 0 THEN MarkerCount(i) ELSE IF IsBoldLine(i) THEN 4 ELSE 3

\* the header text of line i: what follows the markers, what is between the bold
\* marks, or the line itself when it is shorter than 100 characters
TextOfLine(i) ==
  With(TrimmedLine(i), LAMBDA line :
    IF MarkerCount(i) > 0 THEN Trim(SubSeq(line, MarkerCount(i) + 1, Len(line)))
    ELSE IF IsBoldLine(i) THEN Trim(SubSeq(line, 3, Len(line) - 2))
    ELSE IF Len(line) < 100 THEN line
    ELSE <<>>)

\* line i has a header text that satisfies one of the three rules for the target
SatisfiesRule(i) ==
  With(normalize(resolverTarget), LAMBDA target :
    With(normalize(TextOfLine(i)), LAMBDA header :
      /\ TextOfLine(i) # <<>>
      /\ \/ header = target
         \/ Len(target) > 2 /\ (Includes(header, target) \/ Includes(target, header))
         \/ /\ Len(superClean(target)) > 2
            /\ Len(superClean(header)) > 2
            /\ \/ Includes(superClean(header), superClean(target))
               \/ Includes(superClean(target), superClean(header))))

\* line i, in lower case, holds the normalized target or is held by it
HoldsOrHeld(i) ==
  With(normalize(resolverTarget), LAMBDA target :
    With(ToLowerCase(TrimmedLine(i)), LAMBDA line :
      line # <<>> /\ (Includes(line, target) \/ Includes(target, line))))

RuleLines == {i \in 1..Len(resolverLines) : SatisfiesRule(i)}

HoldingLines == {i \in 1..Len(resolverLines) : HoldsOrHeld(i)}

\* the lowest member of a non-empty set of line numbers
Lowest(S) == CHOOSE i \in S : \A j \in S : i <= j

\* what the scan returns for a target that is looked for: the lowest line that
\* satisfies a rule, with its level; when there is none the lowest line of the
\* unrestricted pass, at level 2; when there is none either, not found
ScanResult ==
  IF RuleLines # {}
    THEN [index |-> Lowest(RuleLines) - 1, level |-> LevelOfLine(Lowest(RuleLines))]
  ELSE IF HoldingLines # {}
    THEN [index |-> Lowest(HoldingLines) - 1, level |-> 2]
  ELSE HeaderNotFound

\* C14 as stated: the scan result for every target but the empty one, not found for
\* the empty target.
C14_ScanUnlessEmptyTarget ==
  Resolved =>
    resolverResult.v = IF resolverTarget = <<>> THEN HeaderNotFound ELSE ScanResult

\* C14 as amended: the scan result for every target whose normalized text is not
\* empty; not found for the empty target and for a target that normalizes to nothing
\* (one made of markers, blanks or a single punctuation mark only).
C14_ScanUnlessEmptyNormalizedTarget ==
  Resolved =>
    resolverResult.v = IF normalize(resolverTarget) = <<>> THEN HeaderNotFound ELSE ScanResult

\* C14 witness: a two-letter target that no rule accepts was found by the unrestricted
\* pass in the second line, behind a marker without a title
C14_Witness ==
  /\ Resolved
  /\ resolverTarget = <<"u", "m">>
  /\ Len(resolverLines) = 2
  /\ resolverLines[1] = <<"#", "#">>
  /\ RuleLines = {}
  /\ resolverResult.v = [index |-> 1, level |-> 2]

\* C27: findHeaderLineIndex never returns a line whose normalized text is empty: when
\* the normalized target is longer than 2 characters, the line it returns is not one
\* made only of markers or separators, such as a rule.
C27_NeverAnEmptyLine ==
  (resolverResult # None /\ resolverResult.v.index # -1
     /\ Len(normalize(resolverTarget)) > 2) =>
    normalize(resolverLines[resolverResult.v.index + 1]) # <<>>

\* the only line of the document was returned, at the level of its marker count
FoundAtMarkerLevel ==
  resolverResult.v = [index |-> 0, level |-> LeadingRun(resolverLines[1], {"#"})]

PlainSpellings ==
  {Spelled(title, quoted, sp) :
     title \in Titles, quoted \in BOOLEAN, sp \in Spellings(PlainTails)}

\* the text is a title spelled with a plain tail
PlainlySpelled(text) == text \in PlainSpellings

\* the text of the header line, behind its markers and the blank
SpelledInLine ==
  SubSeq(resolverLines[1], LeadingRun(resolverLines[1], {"#"}) + 2, Len(resolverLines[1]))

Sent == sentThinkingConfig # None

\* what the budget and level of the role of the step stand for, the model aside
FromBudget ==
  IF specificThinkingBudget = 0 THEN Undefined
  ELSE IF specificThinkingBudget = -1
    THEN IF modelDetailsForStep.apiName = GEMINI_3_PRO_MODEL_ID
           THEN [thinkingLevel |-> specificThinkingLevel]
           ELSE [thinkingBudget |-> 1024]
  ELSE [thinkingBudget |-> specificThinkingBudget]

\* C22 as stated: on the OpenAI-compatible path no reasoning parameter is sent; outside
\* it budget 0 sends none, the auto sentinel sends the level of the role when the model
\* has leveled reasoning and the budget 1024 otherwise, any other budget is sent as it is.
C22_ReasoningFromBudget ==
  Sent => sentThinkingConfig.v = IF useOpenAiApiConfig THEN Undefined ELSE FromBudget

\* C22 as amended: the same for a model that supports a reasoning configuration; for
\* a model that does not (supportsThinkingConfig false or left out) no reasoning
\* parameter is sent, whatever the budget.
C22_ReasoningFromBudgetIfSupported ==
  Sent => sentThinkingConfig.v =
            IF useOpenAiApiConfig \/ modelDetailsForStep.supportsThinkingConfig # Some(TRUE)
              THEN Undefined
              ELSE FromBudget

\* C22 witness: Muse runs on the model with leveled reasoning, its budget is the auto
\* sentinel while that of Cognito is a number, and the level of Muse was sent
C22_Witness ==
  /\ Sent
  /\ ~useOpenAiApiConfig
  /\ senderForStep = "Muse"
  /\ modelDetailsForStep = [apiName |-> GEMINI_3_PRO_MODEL_ID,
                            supportsThinkingConfig |-> Some(TRUE)]
  /\ museThinkingBudget = -1
  /\ cognitoThinkingBudget = 2048
  /\ museThinkingLevel = "HIGH"
  /\ cognitoThinkingLevel = "LOW"
  /\ sentThinkingConfig.v = [thinkingLevel |-> "HIGH"]

\* ------------------------------------------------------------------------
\* Properties of robustJsonParse
\* ------------------------------------------------------------------------

\* C23: a text that is valid JSON is returned as JSON.parse reads it; a text that is
\* valid JSON but for trailing commas before closing braces and brackets is returned
\* as the text without those commas reads; a text that stays invalid after the
\* trailing-comma repair and after the comment repair is returned as null.
C23_RepairsKeepTheValue ==
  jsonResult # None =>
    /\ JsonParse(jsonStr).ok => jsonResult.v = JsonParse(jsonStr).val
    /\ jsonDefects \in {"none", "commas"} =>
         JsonParse(jsonPlain).ok /\ jsonResult.v = JsonParse(jsonPlain).val
    /\ ( /\ ~JsonParse(jsonStr).ok
         /\ ~JsonParse(StripTrailingCommas(jsonStr)).ok
         /\ ~JsonParse(StripBlockComments(
                         StripLineComments(StripTrailingCommas(jsonStr), FALSE))).ok )
         => jsonResult.v = JsNull

\* ------------------------------------------------------------------------
\* Properties of generateOpenAiResponse
\* ------------------------------------------------------------------------

\* the contents of the frames that come before the sentinel, in order
RECURSIVE ContentsBeforeDone(_)
ContentsBeforeDone(frames) ==
  IF frames = <<>> \/ frames[1].kind = "done" THEN <<>>
  ELSE (IF frames[1].kind = "content" THEN <<StringValue(frames[1].literal)>> ELSE <<>>)
         \o ContentsBeforeDone(Tail(frames))

\* C28: however the stream is split into chunks, the returned text and the deltas
\* passed to the stream callback are, in order, the contents of exactly the frames
\* that come before the sentinel.
C28_ExactlyTheFramesBeforeDone ==
  openAiResult # None =>
    /\ openAiResult.v.text = ContentsBeforeDone(sseFrames)
    /\ onStreamDeltas = ContentsBeforeDone(sseFrames)


====
